---- MODULE Spec2Model ----
(***************************************************************************)
(* sped-parser-br: record ingestion, end-marker trimming, hierarchy        *)
(* resolution and layout-driven extraction (SPEDParser.parse and the three *)
(* family extractors).                                                     *)
(*                                                                         *)
(* A cell of the DataFrame is a Python str, modelled as a tuple of         *)
(* one-character strings, or the float NaN that read_csv / merge / map     *)
(* leave for an empty or missing value, or None.  A record (one row) is a  *)
(* function from the layout's symbolic field names to cells: the Layout    *)
(* Registry (field name -> column index) is static configuration, so a     *)
(* row is indexed here by field name.  "reg" is the record-type column of  *)
(* the package's layout (REG: column "0" in sped_parser, column "1" in     *)
(* sped_parser_br).                                                        *)
(***************************************************************************)
EXTENDS Integers, Sequences, FiniteSets, TLC

\* Longest record body (records after the block-0 prologue) of an input file.
MaxBody == 3

\* rows per batch of the fallback read (CHUNK_SIZE, scaled down)
CHUNK_SIZE == 2

\* Longest input file of the runs that read in steps.
MaxLines == 4

\* Widths of the schema patterns and of the zfill calls.
NcmLen == 8
CfopLen == 4
CnpjLen == 14
UfLen == 2

VARIABLES family, content, df, pc, result, error, parts, chunksize

vars == <<family, content, df, pc, result, error, parts, chunksize>>

----------------------------------------------------------------------------
\* Cells

NaN == <<"NaN">>
None == <<"None">>

Digit == {"0", "1", "2", "3", "4", "5", "6", "7", "8", "9"}
Upper == {"A", "B", "C", "D", "E", "F", "G", "H", "I", "J", "K", "L", "M",
          "N", "O", "P", "Q", "R", "S", "T", "U", "V", "W", "X", "Y", "Z"}

\* pd.notna(v)
notna(v) == v # NaN /\ v # None

\* isinstance(v, str)
IsStr(v) == v # NaN /\ v # None

\* str(v): str(float('nan')) is "nan", str(None) is "None"
str(v) ==
    IF v = NaN THEN <<"n", "a", "n">>
    ELSE IF v = None THEN <<"N", "o", "n", "e">>
    ELSE v

\* Python truthiness of a cell: NaN is a non-zero float, hence true
Truthy(v) == v # None /\ v # <<>>

\* a or b
Or(a, b) == IF Truthy(a) THEN a ELSE b

Zeros(n) == [i \in 1..n |-> "0"]

\* Faulty variant: pads on the right, as str.ljust(width, "0")
ljust(s, width) ==
    IF Len(s) >= width THEN s ELSE s \o Zeros(width - Len(s))

\* str.zfill(width): left-pad with "0", after a leading sign if there is one
zfill(s, width) ==
    IF Len(s) >= width THEN s
    ELSE IF s # <<>> /\ s[1] \in {"+", "-"}
         THEN <<s[1]>> \o Zeros(width - Len(s)) \o Tail(s)
         ELSE Zeros(width - Len(s)) \o s

\* s[:n]
Prefix(s, n) == SubSeq(s, 1, IF Len(s) < n THEN Len(s) ELSE n)

\* Field(pattern=r"^\d{n}$") on a str field
MatchDigits(v, n) == IsStr(v) /\ Len(v) = n /\ \A i \in 1..Len(v) : v[i] \in Digit

\* Field(pattern=r"^[A-Z]{n}$") on a str field
MatchUpper(v, n) == IsStr(v) /\ Len(v) = n /\ \A i \in 1..Len(v) : v[i] \in Upper

\* row.get(key, default)
Get(row, key, default) == IF key \in DOMAIN row THEN row[key] ELSE default

\* pd.isna(v)
isna(v) == v = NaN \/ v = None

\* s.replace(a, b), for one-character a and b
Replace(s, a, b) == [i \in 1..Len(s) |-> IF s[i] = a THEN b ELSE s[i]]

IsDigits(s) == \A i \in 1..Len(s) : s[i] \in Digit

DigitValue(c) ==
    CASE c = "0" -> 0 [] c = "1" -> 1 [] c = "2" -> 2 [] c = "3" -> 3
      [] c = "4" -> 4 [] c = "5" -> 5 [] c = "6" -> 6 [] c = "7" -> 7
      [] c = "8" -> 8 [] c = "9" -> 9

RECURSIVE DigitsToInt(_)
\* the number a string of digits denotes (0 for the empty string)
DigitsToInt(s) ==
    IF s = <<>> THEN 0
    ELSE 10 * DigitsToInt(SubSeq(s, 1, Len(s) - 1)) + DigitValue(s[Len(s)])

----------------------------------------------------------------------------
\* Decimal values: coef * 10^exp, as decimal.Decimal keeps them.  A value is
\* a tagged tuple, so that it can be compared with None.

DecimalOf(coef, exp) == <<"Decimal", coef, exp>>

\* Faulty variant: Decimal with the digits after the point dropped
DecimalTruncated(s) ==
    LET dots == {i \in 1..Len(s) : s[i] = "."}
        point == IF dots = {} THEN Len(s) + 1 ELSE CHOOSE i \in dots : TRUE
        int == SubSeq(s, 1, point - 1)
    IN IF Cardinality(dots) <= 1 /\ int # <<>> /\ IsDigits(int)
       THEN [raised |-> "none", value |-> DecimalOf(DigitsToInt(int), 0)]
       ELSE [raised |-> "InvalidOperation", value |-> <<>>]

\* Decimal(s) of an unsigned numeral: digits, with at most one point and at
\* least one digit; any other text raises InvalidOperation.  (Signs,
\* exponents, surrounding blanks and the Infinity and NaN literals, which
\* Decimal also reads, do not occur in the input files modelled here.)
Decimal(s) ==
    LET dots == {i \in 1..Len(s) : s[i] = "."}
        point == IF dots = {} THEN Len(s) + 1 ELSE CHOOSE i \in dots : TRUE
        int == SubSeq(s, 1, point - 1)
        frac == SubSeq(s, point + 1, Len(s))
    IN IF Cardinality(dots) <= 1 /\ int \o frac # <<>> /\ IsDigits(int \o frac)
       THEN [raised |-> "none",
             value |-> DecimalOf(DigitsToInt(int \o frac), 0 - Len(frac))]
       ELSE [raised |-> "InvalidOperation", value |-> <<>>]

\* _to_decimal (the same static method in the three parsers)
_to_decimal(value) ==
    IF isna(value) THEN DecimalOf(0, 0)
    ELSE LET d == Decimal(Replace(str(value), ",", "."))
         IN IF d.raised = "none" THEN d.value ELSE DecimalOf(0, 0)

\* self._to_decimal(row.get(key)) if pd.notna(row.get(key)) else None
OptionalDecimal(row, key) ==
    IF notna(Get(row, key, None)) THEN _to_decimal(Get(row, key, None)) ELSE None

----------------------------------------------------------------------------
\* Dates: a tagged tuple of year, month and day

DateOf(y, m, d) == <<"date", y, m, d>>

\* datetime(2024, 1, 1), which pydantic reads as the date 2024-01-01
DefaultDate == DateOf(2024, 1, 1)

IsLeap(y) == (y % 4 = 0 /\ y % 100 # 0) \/ y % 400 = 0

DaysInMonth(m, y) ==
    IF m = 2 THEN (IF IsLeap(y) THEN 29 ELSE 28)
    ELSE IF m \in {4, 6, 9, 11} THEN 30 ELSE 31

\* datetime.strptime(s, "%d%m%Y").date() of a string of eight characters: of
\* digits only, the string is read when it is two digits of day, two of month
\* and four of year that name a calendar date.  (A blank before a one-digit
\* day, which %d also reads, does not occur in the input files modelled here.)
strptime(s) ==
    LET d == DigitsToInt(SubSeq(s, 1, 2))
        m == DigitsToInt(SubSeq(s, 3, 4))
        y == DigitsToInt(SubSeq(s, 5, 8))
    IN IF /\ Len(s) = 8 /\ IsDigits(s)
          /\ y >= 1 /\ m \in 1..12 /\ d >= 1 /\ d <= DaysInMonth(m, y)
       THEN [raised |-> "none", value |-> DateOf(y, m, d)]
       ELSE [raised |-> "ValueError", value |-> <<>>]

\* _parse_date: `not date_str` is true of "" and None; len() of the float NaN
\* raises TypeError
_parse_date(date_str) ==
    IF ~Truthy(date_str) THEN [raised |-> "none", value |-> DefaultDate]
    ELSE IF ~IsStr(date_str) THEN [raised |-> "TypeError", value |-> <<>>]
    ELSE IF Len(date_str) < 8 THEN [raised |-> "none", value |-> DefaultDate]
    ELSE LET parsed == strptime(Prefix(date_str, 8))
         IN IF parsed.raised = "none" THEN parsed
            ELSE [raised |-> "none", value |-> DefaultDate]

\* self._parse_date(str(row.get(key, ""))) if pd.notna(row.get(key)) else None
OptionalDate(row, key) ==
    IF notna(Get(row, key, None)) THEN _parse_date(str(Get(row, key, <<>>))).value
    ELSE None

----------------------------------------------------------------------------
\* Family constants (layouts.py, and the class attributes of the parsers)

Families == {"contribuicoes", "fiscal", "ecd"}

PARENT_CODES_CONTRIBUICOES ==
    {"0000", "0140", "A100", "C100", "C180", "C190", "C380", "C400", "C500",
     "C600", "C800", "D100", "D500", "F100", "F120", "F130", "F150", "F200",
     "F500", "F600", "F700", "F800", "I100", "M100", "M200", "M300", "M350",
     "M400", "M500", "M600", "M700", "M800", "P100", "P200", "1010", "1020",
     "1050", "1100", "1200", "1300", "1500", "1600", "1700", "1800", "1900"}

PARENT_CODES_FISCAL ==
    {"0000",
     "C100", "C300", "C350", "C400", "C495", "C500", "C600", "C700", "C800", "C860",
     "D100", "D300", "D350", "D400", "D500", "D600", "D695", "D700", "D750",
     "E100", "E200", "E300", "E500",
     "G110",
     "H005",
     "K100", "K200", "K210", "K220", "K230", "K250", "K260", "K270", "K280", "K290", "K300",
     "1100", "1200", "1300", "1350", "1390", "1400", "1500", "1600", "1601", "1700", "1800",
     "1900", "1960", "1970", "1980"}

PARENT_CODES_ECD ==
    {"0000", "0001", "C001", "C040", "C050", "C150", "C600", "I001", "I010", "I050", "I150"}

parent_codes(fam) ==
    CASE fam = "contribuicoes" -> PARENT_CODES_CONTRIBUICOES
      [] fam = "fiscal" -> PARENT_CODES_FISCAL
      [] fam = "ecd" -> PARENT_CODES_ECD

end_marker(fam) ==
    CASE fam = "contribuicoes" -> "9999"
      [] fam = "fiscal" -> "9999"
      [] fam = "ecd" -> "I990"

\* IBGE_UF_CODES: each entry is the two digits of the IBGE state code followed
\* by the two letters of the UF
IBGE_UF_CODES ==
    {<<"1", "1", "R", "O">>, <<"1", "2", "A", "C">>, <<"1", "3", "A", "M">>,
     <<"1", "4", "R", "R">>, <<"1", "5", "P", "A">>, <<"1", "6", "A", "P">>,
     <<"1", "7", "T", "O">>, <<"2", "1", "M", "A">>, <<"2", "2", "P", "I">>,
     <<"2", "3", "C", "E">>, <<"2", "4", "R", "N">>, <<"2", "5", "P", "B">>,
     <<"2", "6", "P", "E">>, <<"2", "7", "A", "L">>, <<"2", "8", "S", "E">>,
     <<"2", "9", "B", "A">>, <<"3", "1", "M", "G">>, <<"3", "2", "E", "S">>,
     <<"3", "3", "R", "J">>, <<"3", "5", "S", "P">>, <<"4", "1", "P", "R">>,
     <<"4", "2", "S", "C">>, <<"4", "3", "R", "S">>, <<"5", "0", "M", "S">>,
     <<"5", "1", "M", "T">>, <<"5", "2", "G", "O">>, <<"5", "3", "D", "F">>}

----------------------------------------------------------------------------
\* Input files: the lines of one file, already split on the delimiter.
\* Every field a line does not carry is empty, which read_csv(dtype=str) reads
\* as NaN.  "tokens" is the number of tokens of the line against the number
\* of columns of the family (num_columns): the records of the layouts have
\* fewer.

Blank ==
    [tokens |-> "fewer", reg |-> "", CNPJ |-> NaN, NOME |-> NaN, UF |-> NaN,
     COD_ITEM |-> NaN, DESCR_ITEM |-> NaN, COD_NCM |-> NaN,
     IND_OPER |-> NaN, COD_PART |-> NaN, COD_MUN |-> NaN,
     CFOP |-> NaN, DESCR_COMPL |-> NaN,
     COD_CTA |-> NaN, NOME_CTA |-> NaN, COD_CTA_REF |-> NaN,
     VL_ITEM |-> NaN, QTD |-> NaN, ALIQ_PIS |-> NaN, VL_CTA |-> NaN,
     DT_INI |-> NaN, DT_FIN |-> NaN, DT_DOC |-> NaN]

Line(code) == [Blank EXCEPT !.reg = code]

\* Of the amounts of a detail line, VL_ITEM stands for the required ones and
\* QTD and ALIQ_PIS for the optional ones: the extractors convert the others
\* with the same two expressions.

\* |0000|...|ACME|123|SP|: a short taxpayer id and a valid state code
L0000 ==
    [Blank EXCEPT !.reg = "0000", !.CNPJ = <<"1", "2", "3">>,
                  !.NOME = <<"A", "C", "M", "E">>, !.UF = <<"S", "P">>,
                  !.DT_INI = <<"0", "5", "0", "1", "2", "0", "2", "4">>,
                  !.DT_FIN = <<"3", "1", "0", "1", "2", "0", "2", "4">>]

\* a 0000 line with other period dates
Dated(line, ini, fin) == [line EXCEPT !.DT_INI = ini, !.DT_FIN = fin]

\* a 0000 line with an empty start date
L0000undated == Dated(L0000, NaN, <<"3", "1", "0", "1", "2", "0", "2", "4">>)

\* a 0000 line with a start date that is no calendar date and a short end date
L0000misdated ==
    Dated(L0000, <<"9", "9", "9", "9", "9", "9", "9", "9">>, <<"0", "1", "0", "1">>)

\* a 0000 line whose state code violates the Header schema
L0000bad == [L0000 EXCEPT !.UF = <<"s", "p">>]

\* a 0000 line with another taxpayer id
Identified(line, cnpj) == [line EXCEPT !.CNPJ = cnpj]

\* a 0000 line with a taxpayer id of 14 digits
L0000full ==
    Identified(L0000, <<"1", "2", "3", "4", "5", "6", "7", "8", "0", "0", "0", "1", "9", "5">>)

\* a 0000 line with a taxpayer id of 15 digits
L0000long ==
    Identified(L0000, <<"1", "2", "3", "4", "5", "6", "7", "8", "0", "0", "0", "1", "9", "5", "0">>)

\* a 0000 line with a signed taxpayer id
L0000signed == Identified(L0000, <<"-", "1", "2">>)

\* |0200|A|d|...|1234|: product A with a short classification code
L0200 ==
    [Blank EXCEPT !.reg = "0200", !.COD_ITEM = <<"A">>,
                  !.DESCR_ITEM = <<"d">>, !.COD_NCM = <<"1", "2", "3", "4">>]

\* a second 0200 line of product A, with another description and code
L0200again ==
    [L0200 EXCEPT !.DESCR_ITEM = <<"e">>,
                  !.COD_NCM = <<"8", "7", "6", "5", "4", "3", "2", "1">>]

\* |0150|P1|n|...|3503|: participant P1 in a municipality of state 35 (SP)
L0150 ==
    [Blank EXCEPT !.reg = "0150", !.COD_PART = <<"P", "1">>,
                  !.NOME = <<"n">>, !.COD_MUN = <<"3", "5", "0", "3">>]

\* a 0150 line of participant P2, with another municipality code
L0150other(cod_mun) ==
    [Blank EXCEPT !.reg = "0150", !.COD_PART = <<"P", "2">>,
                  !.NOME = <<"m">>, !.COD_MUN = cod_mun]

\* a second 0150 line of participant P1, in a municipality of state 33 (RJ)
L0150again ==
    [Blank EXCEPT !.reg = "0150", !.COD_PART = <<"P", "1">>,
                  !.NOME = <<"o">>, !.COD_MUN = <<"3", "3", "0", "4">>]

\* a document record; the C100 records carry a document date
Doc(code, oper, part) ==
    [Blank EXCEPT !.reg = code, !.IND_OPER = oper, !.COD_PART = part,
                  !.DT_DOC = IF code = "C100"
                             THEN <<"2", "9", "0", "2", "2", "0", "2", "4">>
                             ELSE NaN]

Detail(code, item, cfop) ==
    [Blank EXCEPT !.reg = code, !.COD_ITEM = item, !.CFOP = cfop,
                  !.DESCR_COMPL = <<"c">>]

\* a detail line with an amount, and a quantity and a rate
Priced(line, vl, opt) == [line EXCEPT !.VL_ITEM = vl, !.QTD = opt, !.ALIQ_PIS = opt]

LI050 ==
    [Blank EXCEPT !.reg = "I050", !.COD_CTA = <<"X">>, !.NOME_CTA = <<"n">>]

LI051 == [Blank EXCEPT !.reg = "I051", !.COD_CTA_REF = <<"R">>]

\* a second I050 line of account X, with another name
LI050again == [LI050 EXCEPT !.NOME_CTA = <<"m">>]

\* an I051 line with another reference code
LI051other == [LI051 EXCEPT !.COD_CTA_REF = <<"S">>]

LI355(cta) == [Blank EXCEPT !.reg = "I355", !.COD_CTA = cta]

Prologues(fam) ==
    CASE fam = "contribuicoes" ->
            {<<>>, <<L0000bad, L0200>>, <<L0000>>, <<L0000, L0200>>,
             <<L0000undated, L0200>>, <<L0000misdated, L0200>>,
             <<L0000, L0200, L0200again>>,
             <<L0000, L0200, Doc("A100", <<"1">>, NaN), Detail("A170", <<"A">>, NaN)>>}
      [] fam = "fiscal" ->
            {<<>>, <<L0000bad>>, <<L0000>>, <<L0000, L0200>>,
             <<L0000, L0200, L0150>>, <<L0000undated, L0200>>,
             <<L0000, L0200, L0150, L0150other(<<"9", "9", "0", "3">>)>>,
             <<L0000, L0200, L0150, L0150other(NaN)>>,
             <<L0000, L0200, L0200again, L0150, L0150again>>}
      [] fam = "ecd" ->
            {<<>>, <<L0000bad>>, <<L0000>>, <<L0000, LI050, LI051>>, <<L0000undated>>,
             <<L0000full>>, <<L0000long>>, <<L0000signed>>,
             <<L0000, LI050, LI050again, LI051, LI051other>>}

BodyLines(fam) ==
    CASE fam = "contribuicoes" ->
            {Doc("C100", <<"1">>, NaN), Doc("C100", <<"0">>, NaN),
             Doc("A100", <<"1">>, NaN), Doc("A100", <<"0">>, NaN),
             Detail("C170", <<"B">>, <<"9", "4", "9">>),
             Detail("C170", <<"A">>, <<"5", "1", "0", "2", "0">>),
             Priced(Detail("C170", <<"A">>, <<"9", "4", "9">>),
                    <<"1", "2", "3", "4", ",", "5", "6">>, <<"2", ",", "5">>),
             Priced(Detail("C170", <<"A">>, <<"9", "4", "9">>), <<"x">>, <<"x">>),
             Detail("A170", <<"A">>, NaN),
             Line("C190"), Line("9999")}
      [] fam = "fiscal" ->
            {Doc("C100", <<"0">>, <<"P", "1">>), Doc("C100", <<"0">>, <<"P", "2">>),
             Doc("C100", <<"1">>, <<"P", "1">>),
             Detail("C170", <<"A">>, <<"9", "4", "9">>),
             Line("C500"), Line("9999")}
      [] fam = "ecd" ->
            {LI050, LI051, LI355(<<"X">>), LI355(<<"Y">>),
             Line("I150"), Line("I990")}

SeqsUpTo(S, n) == UNION {[1..k -> S] : k \in 0..n}

Files(fam) == {p \o b : p \in Prologues(fam), b \in SeqsUpTo(BodyLines(fam), MaxBody)}

\* a line with more tokens than the family has columns
Overlong(line) == [line EXCEPT !.tokens = "more"]

\* a line with as many tokens as the family has columns
Exact(line) == [line EXCEPT !.tokens = "equal"]

\* the lines of the files read in steps: identification records, an
\* end-marker record, lines of too many tokens and a line of all its tokens
ReadLines(fam) ==
    {L0000,
     CASE fam = "contribuicoes" -> L0000bad
       [] fam = "fiscal" -> L0000undated
       [] fam = "ecd" -> LI050,
     Line(end_marker(fam)),
     Overlong(Line(end_marker(fam))),
     Overlong(L0000),
     Exact(L0000)}

\* the files read in steps.  The first line of a file is not one of too many
\* tokens: read_csv would take its leading fields for the index.
ReadFiles(fam) ==
    {f \in SeqsUpTo(ReadLines(fam), MaxLines) : f = <<>> \/ f[1].tokens # "more"}

\* the values of self.CHUNK_SIZE the fallback read is run with
ChunkSizes == 1..(CHUNK_SIZE + 1)

----------------------------------------------------------------------------
\* base.py: SPEDParser

DigitChar(d) ==
    CASE d = 0 -> "0" [] d = 1 -> "1" [] d = 2 -> "2" [] d = 3 -> "3"
      [] d = 4 -> "4" [] d = 5 -> "5" [] d = 6 -> "6" [] d = 7 -> "7"
      [] d = 8 -> "8" [] d = 9 -> "9"

RECURSIVE IntStr(_)
\* str(n) of a row index, as df.index.astype(str) gives it
IntStr(n) ==
    IF n < 10 THEN <<DigitChar(n)>>
    ELSE IntStr(n \div 10) \o <<DigitChar(n % 10)>>

\* np.argmax(mask): position (1-based here) of the first True
argmax(mask) == CHOOSE i \in 1..Len(mask) : mask[i] /\ \A j \in 1..(i - 1) : ~mask[j]

\* a row of the frame: the columns of a line, under an index label
Row(line, label) ==
    [index |-> label, reg |-> line.reg, CNPJ |-> line.CNPJ,
     NOME |-> line.NOME, UF |-> line.UF, COD_ITEM |-> line.COD_ITEM,
     DESCR_ITEM |-> line.DESCR_ITEM, COD_NCM |-> line.COD_NCM,
     IND_OPER |-> line.IND_OPER, COD_PART |-> line.COD_PART,
     COD_MUN |-> line.COD_MUN, CFOP |-> line.CFOP,
     DESCR_COMPL |-> line.DESCR_COMPL, COD_CTA |-> line.COD_CTA,
     NOME_CTA |-> line.NOME_CTA, COD_CTA_REF |-> line.COD_CTA_REF,
     VL_ITEM |-> line.VL_ITEM, QTD |-> line.QTD, ALIQ_PIS |-> line.ALIQ_PIS,
     VL_CTA |-> line.VL_CTA, DT_INI |-> line.DT_INI, DT_FIN |-> line.DT_FIN,
     DT_DOC |-> line.DT_DOC]

\* Faulty variant: every line is kept, whatever its number of tokens
all_lines(lines) == lines

\* on_bad_lines="skip": a line with more tokens than names is left out; a
\* line with fewer is kept, its missing columns NaN
good_lines(lines) == SelectSeq(lines, LAMBDA line : line.tokens # "more")

\* the rows of the lines, labelled from `first` on
rows_from(lines, first) == [i \in 1..Len(lines) |-> Row(lines[i], first + i - 1)]

\* Faulty variant: the index counts from 1
read_csv_from_one(lines) == rows_from(good_lines(lines), 1)

\* pd.read_csv(file_obj, header=None, names=column_names, ...): one record
\* per line, in file order, under a RangeIndex
read_csv(lines) == rows_from(good_lines(lines), 0)

\* the engines of _read_file: the C engine, and the Python engine it falls
\* back to when the C engine raises ParserError or csv.Error
Engines == {"c", "python"}

\* the k-th chunk the reader yields: the next `size` rows of the table
get_chunk(table, k, size) ==
    SubSeq(table, (k - 1) * size + 1,
           IF k * size < Len(table) THEN k * size ELSE Len(table))

\* Faulty variant: the end marker is never seen in a chunk
mask_end_never(chunk, marker) == [i \in 1..Len(chunk) |-> FALSE]

\* mask_end = chunk["0"].astype(str).eq(self.end_marker)
mask_end(chunk, marker) == [i \in 1..Len(chunk) |-> chunk[i].reg = marker]

\* Faulty variant: the chunk with the marker is appended whole
part_of_whole(chunk, marker) == chunk

\* the part of a chunk the loop appends: chunk.iloc[: first_idx + 1] of a
\* chunk with the end marker, the chunk otherwise
part_of(chunk, marker) ==
    IF \E i \in 1..Len(chunk) : mask_end(chunk, marker)[i]
    THEN SubSeq(chunk, 1, argmax(mask_end(chunk, marker)))
    ELSE chunk

RECURSIVE read_chunks(_, _, _, _)
\* for chunk in reader: the parts appended, from the k-th chunk on; the
\* chunk with the end marker is cut after it and ends the loop
read_chunks(table, k, marker, size) ==
    IF (k - 1) * size >= Len(table) THEN <<>>
    ELSE IF \E i \in 1..Len(get_chunk(table, k, size)) :
               mask_end(get_chunk(table, k, size), marker)[i]
         THEN part_of(get_chunk(table, k, size), marker)
         ELSE get_chunk(table, k, size) \o read_chunks(table, k + 1, marker, size)

RECURSIVE flatten(_)
\* the rows of a list of frames, in the order of the list
flatten(frames) ==
    IF frames = <<>> THEN <<>> ELSE Head(frames) \o flatten(Tail(frames))

\* pd.concat(parts, ignore_index=True)
concat(rows) == [i \in 1..Len(rows) |-> [rows[i] EXCEPT !.index = i - 1]]

\* _read_file
_read_file(lines, engine, marker) ==
    IF engine = "c" THEN read_csv(lines)
    ELSE concat(read_chunks(read_csv(lines), 1, marker, CHUNK_SIZE))

\* Faulty variant: the table is returned uncut
_trim_nothing(table, marker) == table

\* Faulty variant: df.iloc[:cut_idx], which cuts before the marker
_trim_before_end_marker(table, marker) ==
    IF table = <<>> THEN table
    ELSE LET mask == [i \in 1..Len(table) |-> table[i].reg = marker]
         IN IF \E i \in 1..Len(table) : mask[i]
            THEN LET cut_idx == argmax(mask) IN SubSeq(table, 1, cut_idx - 1)
            ELSE table

\* _trim_at_end_marker
_trim_at_end_marker(table, marker) ==
    IF table = <<>> THEN table
    ELSE LET mask == [i \in 1..Len(table) |-> table[i].reg = marker]
         IN IF \E i \in 1..Len(table) : mask[i]
            THEN LET cut_idx == argmax(mask) IN SubSeq(table, 1, cut_idx)
            ELSE table

\* Faulty variant: the forward fill left out
ffill_none(table, i, last) == table

RECURSIVE ffill_own(_, _, _)
\* Faulty variant: a None with no value before it takes the row's own id
ffill_own(table, i, last) ==
    IF i > Len(table) THEN table
    ELSE IF table[i].id_pai = None
         THEN ffill_own([table EXCEPT ![i].id_pai = IF last = None THEN table[i].id ELSE last],
                        i + 1, last)
         ELSE ffill_own(table, i + 1, table[i].id_pai)

RECURSIVE ffill(_, _, _)
\* Series.ffill() on column id_pai: a None takes the last value before it
ffill(table, i, last) ==
    IF i > Len(table) THEN table
    ELSE IF table[i].id_pai = None
         THEN ffill([table EXCEPT ![i].id_pai = last], i + 1, last)
         ELSE ffill(table, i + 1, table[i].id_pai)

\* df.insert(0, "id_pai", ...); df.insert(0, "id", ...): the row with the
\* two columns put before its own
Insert(row, id, id_pai) ==
    [id |-> id, id_pai |-> id_pai, index |-> row.index, reg |-> row.reg,
     CNPJ |-> row.CNPJ, NOME |-> row.NOME, UF |-> row.UF,
     COD_ITEM |-> row.COD_ITEM, DESCR_ITEM |-> row.DESCR_ITEM,
     COD_NCM |-> row.COD_NCM, IND_OPER |-> row.IND_OPER,
     COD_PART |-> row.COD_PART, COD_MUN |-> row.COD_MUN, CFOP |-> row.CFOP,
     DESCR_COMPL |-> row.DESCR_COMPL, COD_CTA |-> row.COD_CTA,
     NOME_CTA |-> row.NOME_CTA, COD_CTA_REF |-> row.COD_CTA_REF,
     VL_ITEM |-> row.VL_ITEM, QTD |-> row.QTD, ALIQ_PIS |-> row.ALIQ_PIS,
     VL_CTA |-> row.VL_CTA, DT_INI |-> row.DT_INI, DT_FIN |-> row.DT_FIN,
     DT_DOC |-> row.DT_DOC]

\* _assign_parent_ids
_assign_parent_ids(table, parents) ==
    IF table = <<>> THEN table
    ELSE LET with_ids == [i \in 1..Len(table) |->
                            Insert(table[i], IntStr(table[i].index), None)]
             marked == [i \in 1..Len(table) |->
                            IF with_ids[i].reg \in parents
                            THEN [with_ids[i] EXCEPT !.id_pai = with_ids[i].id]
                            ELSE with_ids[i]]
         IN ffill(marked, 1, None)

----------------------------------------------------------------------------
\* Results of a call: a returned value, or the exception it raised

Ok(v) == [raised |-> "none", value |-> v]
Raise(exc) == [raised |-> exc, value |-> <<>>]

----------------------------------------------------------------------------
\* pandas operations the extractors use.  A frame built by an extractor is
\* [columns, rows]: an empty frame still has its columns.

\* df[df[reg] == code]
Select(table, code) == SelectSeq(table, LAMBDA r : r.reg = code)

\* frame[[c1, c2, ...]] of one row
Project(row, cols) == [c \in cols |-> row[c]]

\* Faulty variant: no row is dropped
drop_nothing(rows, key) == rows

RECURSIVE drop_duplicates(_, _)
\* DataFrame.drop_duplicates(subset=key): the first row of each key value stays
drop_duplicates(rows, key) ==
    IF rows = <<>> THEN <<>>
    ELSE LET front == drop_duplicates(SubSeq(rows, 1, Len(rows) - 1), key)
             last == rows[Len(rows)]
         IN IF \E i \in 1..Len(front) : front[i][key] = last[key]
            THEN front
            ELSE Append(front, last)

\* Faulty variant: a key with no row takes the value of the first row
MapByIdOrFirst(key, rows, col) ==
    IF \E i \in 1..Len(rows) : rows[i].id = key
    THEN rows[CHOOSE i \in 1..Len(rows) : rows[i].id = key][col]
    ELSE IF rows = <<>> THEN NaN ELSE rows[1][col]

\* series.map(other.set_index("id")[col]): the value of col in the row of
\* `rows` whose id is `key`, NaN when there is none
MapById(key, rows, col) ==
    IF \E i \in 1..Len(rows) : rows[i].id = key
    THEN rows[CHOOSE i \in 1..Len(rows) : rows[i].id = key][col]
    ELSE NaN

RECURSIVE merge_left(_, _, _, _)
\* left.merge(right, left_on=lkey, right_on=rkey, how="left"): left order kept,
\* one output row per matching right row, and one row with NaN in the right
\* frame's columns when nothing matches
merge_left(left, right, lkey, rkey) ==
    IF left = <<>> THEN <<>>
    ELSE LET l == Head(left)
             hits == SelectSeq(right.rows, LAMBDA r : r[rkey] = l[lkey])
             joined ==
                 IF hits = <<>>
                 THEN <<l @@ [c \in right.columns |-> NaN]>>
                 ELSE [i \in 1..Len(hits) |-> l @@ hits[i]]
         IN joined \o merge_left(Tail(left), right, lkey, rkey)

----------------------------------------------------------------------------
\* schemas.py

\* SPEDHeader(...): pydantic validates the fields, ValidationError otherwise
SPEDHeader(f) ==
    IF /\ f.file_type \in Families
       /\ MatchDigits(f.cnpj, CnpjLen)
       /\ IsStr(f.company_name)
       /\ MatchUpper(f.uf, UfLen)
    THEN Ok(f)
    ELSE Raise("ValidationError")

\* Faulty variant: SPEDItem without the patterns of ncm and cfop
SPEDItemNoPattern(f) ==
    IF /\ IsStr(f.ncm)
       /\ IsStr(f.cfop)
       /\ IsStr(f.item_code)
       /\ (f.description = None \/ IsStr(f.description))
       /\ f.operation \in {"entrada", "saida"}
       /\ (f.participant_uf = None \/ MatchUpper(f.participant_uf, UfLen))
    THEN Ok(f)
    ELSE Raise("ValidationError")

\* SPEDItem(...).  The field `line` is not a field of SPEDItem: it records the
\* row id of the detail line the item was built from.
SPEDItem(f) ==
    IF /\ MatchDigits(f.ncm, NcmLen)
       /\ MatchDigits(f.cfop, CfopLen)
       /\ IsStr(f.item_code)
       /\ (f.description = None \/ IsStr(f.description))
       /\ f.operation \in {"entrada", "saida"}
       /\ (f.participant_uf = None \/ MatchUpper(f.participant_uf, UfLen))
    THEN Ok(f)
    ELSE Raise("ValidationError")

\* SPEDExpense(...), with `line` as in SPEDItem
SPEDExpense(f) ==
    IF /\ IsStr(f.account_code)
       /\ (f.account_description = None \/ IsStr(f.account_description))
       /\ (f.reference_code = None \/ IsStr(f.reference_code))
    THEN Ok(f)
    ELSE Raise("ValidationError")

\* Faulty variant: the two item collections exchanged
SPEDDataSwapped(fam, header, sales, purchases, expenses) ==
    [file_type |-> fam, header |-> header, sales_items |-> purchases,
     purchase_items |-> sales, expenses |-> expenses, _raw_df |-> {}]

\* SPEDData(...): _raw_df is None ({}) until set_raw_dataframe
SPEDData(fam, header, sales, purchases, expenses) ==
    [file_type |-> fam, header |-> header, sales_items |-> sales,
     purchase_items |-> purchases, expenses |-> expenses, _raw_df |-> {}]

\* Faulty variant: the table is not kept
set_raw_dataframe_noop(data, table) == data

\* SPEDData.set_raw_dataframe
set_raw_dataframe(data, table) == [data EXCEPT !._raw_df = {table}]

\* SPEDData.raw_dataframe
raw_dataframe(data) ==
    IF data._raw_df = {} THEN Raise("ValueError")
    ELSE Ok(CHOOSE table \in data._raw_df : TRUE)

\* rows.to_dict("records"): one dict per row, of its columns
to_dict(rows) ==
    [i \in 1..Len(rows) |-> [c \in DOMAIN rows[i] \ {"index"} |-> rows[i][c]]]

\* Faulty variant: get_register without the test for a missing table
get_register_unchecked(data, code) ==
    IF data._raw_df = {} THEN Ok(<<>>)
    ELSE Ok(to_dict(Select(CHOOSE table \in data._raw_df : TRUE, code)))

\* SPEDData.get_register
get_register(data, code) ==
    IF data._raw_df = {} THEN Raise("ValueError")
    ELSE Ok(to_dict(Select(CHOOSE table \in data._raw_df : TRUE, code)))

----------------------------------------------------------------------------
\* The row loops: for _, row in frame.iterrows(): try: ... except Exception

\* contribuicoes.py, C170 row -> SPEDItem
_c170_sales_item(row) ==
    LET ncm == zfill(str(Get(row, "COD_NCM", <<>>)), NcmLen)
    IN SPEDItem([ncm |-> IF ncm = <<>> \/ ncm = Zeros(NcmLen) THEN Zeros(NcmLen) ELSE ncm,
                 cfop |-> zfill(str(Get(row, "CFOP", <<>>)), CfopLen),
                 item_code |-> str(Get(row, "COD_ITEM", <<>>)),
                 description |-> Or(Get(row, "DESCR_ITEM", None), Get(row, "DESCR_COMPL", None)),
                 total_value |-> _to_decimal(Get(row, "VL_ITEM", <<"0">>)),
                 quantity |-> OptionalDecimal(row, "QTD"),
                 aliq_pis |-> OptionalDecimal(row, "ALIQ_PIS"),
                 document_date |-> OptionalDate(row, "dt_doc"),
                 operation |-> "saida",
                 participant_uf |-> None,
                 line |-> row.id])

\* contribuicoes.py, A170 row -> SPEDItem
_a170_sales_item(row) ==
    LET ncm == zfill(str(Get(row, "COD_NCM", <<>>)), NcmLen)
    IN SPEDItem([ncm |-> IF ncm = <<>> \/ ncm = Zeros(NcmLen) THEN Zeros(NcmLen) ELSE ncm,
                 cfop |-> <<"5", "9", "3", "3">>,
                 item_code |-> str(Get(row, "COD_ITEM", <<>>)),
                 description |-> Or(Get(row, "DESCR_ITEM", None), Get(row, "DESCR_COMPL", None)),
                 total_value |-> _to_decimal(Get(row, "VL_ITEM", <<"0">>)),
                 quantity |-> None,
                 aliq_pis |-> OptionalDecimal(row, "ALIQ_PIS"),
                 document_date |-> OptionalDate(row, "dt_doc"),
                 operation |-> "saida",
                 participant_uf |-> None,
                 line |-> row.id])

\* fiscal.py, C170 row -> SPEDItem
_c170_purchase_item(row) ==
    LET ncm == zfill(str(Get(row, "COD_NCM", <<>>)), NcmLen)
    IN SPEDItem([ncm |-> IF ncm = <<>> \/ ncm = Zeros(NcmLen) THEN Zeros(NcmLen) ELSE ncm,
                 cfop |-> zfill(str(Get(row, "CFOP", <<>>)), CfopLen),
                 item_code |-> str(Get(row, "COD_ITEM", <<>>)),
                 description |-> Or(Get(row, "DESCR_ITEM", None), Get(row, "DESCR_COMPL", None)),
                 total_value |-> _to_decimal(Get(row, "VL_ITEM", <<"0">>)),
                 quantity |-> OptionalDecimal(row, "QTD"),
                 aliq_pis |-> OptionalDecimal(row, "ALIQ_PIS"),
                 document_date |-> OptionalDate(row, "dt_doc"),
                 operation |-> "entrada",
                 participant_uf |-> IF Truthy(Get(row, "UF", None))
                                    THEN Prefix(str(Get(row, "UF", <<>>)), UfLen)
                                    ELSE None,
                 line |-> row.id])

\* ecd.py, I355 row -> SPEDExpense
_i355_expense(row) ==
    SPEDExpense([account_code |-> str(Get(row, "COD_CTA", <<>>)),
                 account_description |-> Get(row, "NOME_CTA", None),
                 reference_code |-> Get(row, "COD_CTA_REF", None),
                 value |-> _to_decimal(Get(row, "VL_CTA", <<"0">>)),
                 line |-> row.id])

\* the body of the try block, by detail kind
MakeEntity(kind, row) ==
    CASE kind = "C170_saida" -> _c170_sales_item(row)
      [] kind = "A170_saida" -> _a170_sales_item(row)
      [] kind = "C170_entrada" -> _c170_purchase_item(row)
      [] kind = "I355" -> _i355_expense(row)

\* Faulty variant: no try/except around the row, the exception leaves the loop
RowRaise(items, exc) == Raise(exc)

\* except Exception as e: logger.warning(...); continue
RowExcept(items, exc) == Ok(items)

\* one pass of the loop body: items.append(item), or the except clause
TryAppend(items, made) ==
    IF made.raised = "none" THEN Ok(Append(items, made.value))
    ELSE RowExcept(items, made.raised)

RECURSIVE iterrows(_, _, _)
\* the loop: acc is the list built so far, or the exception that left the loop
iterrows(rows, kind, acc) ==
    IF acc.raised # "none" \/ rows = <<>> THEN acc
    ELSE iterrows(Tail(rows), kind, TryAppend(acc.value, MakeEntity(kind, Head(rows))))

----------------------------------------------------------------------------
\* _extract_header (the same in the three parsers, but for file_type)

_extract_header(table, fam) ==
    LET rec_0000 == Select(table, "0000")
    IN IF rec_0000 = <<>> THEN Raise("ValueError")
       ELSE LET row == rec_0000[1]
                dt_ini == _parse_date(Get(row, "DT_INI", <<>>))
                dt_fin == _parse_date(Get(row, "DT_FIN", <<>>))
                cnpj == Get(row, "CNPJ", <<>>)
            IN IF dt_ini.raised # "none" THEN Raise(dt_ini.raised)
               ELSE IF dt_fin.raised # "none" THEN Raise(dt_fin.raised)
               ELSE IF ~IsStr(cnpj) THEN Raise("AttributeError")
               ELSE SPEDHeader([file_type |-> fam,
                                cnpj |-> zfill(cnpj, CnpjLen),
                                company_name |-> Get(row, "NOME", <<>>),
                                period_start |-> dt_ini.value,
                                period_end |-> dt_fin.value,
                                uf |-> Get(row, "UF", <<>>)])

\* _build_product_lookup (contribuicoes.py and fiscal.py)
_build_product_lookup(table) ==
    LET rec_0200 == Select(table, "0200")
        cols == {"COD_ITEM", "DESCR_ITEM", "COD_NCM"}
    IN [columns |-> cols,
        rows |-> drop_duplicates([i \in 1..Len(rec_0200) |-> Project(rec_0200[i], cols)],
                                 "COD_ITEM")]

----------------------------------------------------------------------------
\* contribuicoes.py: EFDContribuicoesParser

\* Faulty variant: the comparison of ind_oper with the direction left out
DirectionFilterAny(table, doc, detail, oper, cols) ==
    LET docs == Select(table, doc)
        lines == Select(table, detail)
        mapped == [i \in 1..Len(lines) |->
                      Project(lines[i], cols) @@
                      [ind_oper |-> MapById(lines[i].id_pai, docs, "IND_OPER"),
                       dt_doc |-> MapById(lines[i].id_pai, docs, "DT_DOC")]]
    IN IF docs = <<>> \/ lines = <<>> THEN <<>>
       ELSE mapped

\* the detail lines of type `detail` whose parent id is the id of a `doc`
\* record with IND_OPER == oper, each with the columns the extractor names
DirectionFilter(table, doc, detail, oper, cols) ==
    LET docs == Select(table, doc)
        lines == Select(table, detail)
        mapped == [i \in 1..Len(lines) |->
                      Project(lines[i], cols) @@
                      [ind_oper |-> MapById(lines[i].id_pai, docs, "IND_OPER"),
                       dt_doc |-> MapById(lines[i].id_pai, docs, "DT_DOC")]]
    IN IF docs = <<>> \/ lines = <<>> THEN <<>>
       ELSE SelectSeq(mapped, LAMBDA r : r.ind_oper = oper)

\* c170_sales after the merge with products
c170_sales_frame(table, products) ==
    merge_left(DirectionFilter(table, "C100", "C170", <<"1">>,
                               {"id", "id_pai", "COD_ITEM", "CFOP", "DESCR_COMPL",
                                "VL_ITEM", "QTD", "ALIQ_PIS"}),
               products, "COD_ITEM", "COD_ITEM")

_extract_c170_sales(table, products) ==
    LET c170_sales == c170_sales_frame(table, products)
    IN IF c170_sales = <<>> THEN Ok(<<>>)
       ELSE iterrows(c170_sales, "C170_saida", Ok(<<>>))

\* a170_sales after the merge with products
a170_sales_frame(table, products) ==
    merge_left(DirectionFilter(table, "A100", "A170", <<"1">>,
                               {"id", "id_pai", "COD_ITEM", "DESCR_COMPL", "VL_ITEM", "ALIQ_PIS"}),
               products, "COD_ITEM", "COD_ITEM")

_extract_a170_sales(table, products) ==
    LET a170_sales == a170_sales_frame(table, products)
    IN IF a170_sales = <<>> THEN Ok(<<>>)
       ELSE iterrows(a170_sales, "A170_saida", Ok(<<>>))

\* Faulty variant: the A170 items are listed before the C170 items
sped_data_a170_first(header, c170_sales, a170_sales) ==
    IF header.raised # "none" THEN header
    ELSE IF c170_sales.raised # "none" THEN c170_sales
    ELSE IF a170_sales.raised # "none" THEN a170_sales
    ELSE Ok(SPEDData("contribuicoes", header.value,
                     a170_sales.value \o c170_sales.value, <<>>, <<>>))

\* return SPEDData(...), or the exception one of the calls before it raised
sped_data_contribuicoes(header, c170_sales, a170_sales) ==
    IF header.raised # "none" THEN header
    ELSE IF c170_sales.raised # "none" THEN c170_sales
    ELSE IF a170_sales.raised # "none" THEN a170_sales
    ELSE Ok(SPEDData("contribuicoes", header.value,
                     c170_sales.value \o a170_sales.value, <<>>, <<>>))

_extract_data_contribuicoes(table) ==
    sped_data_contribuicoes(
        _extract_header(table, "contribuicoes"),
        _extract_c170_sales(table, _build_product_lookup(table)),
        _extract_a170_sales(table, _build_product_lookup(table)))

----------------------------------------------------------------------------
\* fiscal.py: EFDFiscalParser

\* rec_0150["COD_MUN"].astype(str).str[:2].map(IBGE_UF_CODES)
UfOfMun(cod_mun) ==
    LET ibge_code == Prefix(str(cod_mun), 2)
        hit == {e \in IBGE_UF_CODES : <<e[1], e[2]>> = ibge_code}
    IN IF hit = {} THEN NaN
       ELSE LET e == CHOOSE e \in hit : TRUE IN <<e[3], e[4]>>

_build_participant_lookup(table) ==
    LET rec_0150 == Select(table, "0150")
    IN IF rec_0150 = <<>>
       THEN [columns |-> {"COD_PART", "NOME", "COD_MUN"}, rows |-> <<>>]
       ELSE [columns |-> {"COD_PART", "NOME", "UF"},
             rows |-> drop_duplicates(
                          [i \in 1..Len(rec_0150) |->
                              [COD_PART |-> rec_0150[i].COD_PART,
                               NOME |-> rec_0150[i].NOME,
                               UF |-> UfOfMun(rec_0150[i].COD_MUN)]],
                          "COD_PART")]

\* c170_purchases after the merges with products and participants
c170_purchases_frame(table, products, participants) ==
    LET c100 == Select(table, "C100")
        filtered == DirectionFilter(table, "C100", "C170", <<"0">>,
                                    {"id", "id_pai", "COD_ITEM", "CFOP", "DESCR_COMPL",
                                     "VL_ITEM", "QTD", "ALIQ_PIS"})
        c170_purchases == [i \in 1..Len(filtered) |->
                              filtered[i] @@
                              [cod_part |-> MapById(filtered[i].id_pai, c100, "COD_PART")]]
    IN merge_left(merge_left(c170_purchases, products, "COD_ITEM", "COD_ITEM"),
                  participants, "cod_part", "COD_PART")

_extract_c170_purchases(table, products, participants) ==
    LET c170_purchases == c170_purchases_frame(table, products, participants)
    IN IF c170_purchases = <<>> THEN Ok(<<>>)
       ELSE iterrows(c170_purchases, "C170_entrada", Ok(<<>>))

\* return SPEDData(...), or the exception one of the calls before it raised
sped_data_fiscal(header, c170_purchases) ==
    IF header.raised # "none" THEN header
    ELSE IF c170_purchases.raised # "none" THEN c170_purchases
    ELSE Ok(SPEDData("fiscal", header.value, <<>>, c170_purchases.value, <<>>))

_extract_data_fiscal(table) ==
    sped_data_fiscal(
        _extract_header(table, "fiscal"),
        _extract_c170_purchases(table, _build_product_lookup(table),
                                _build_participant_lookup(table)))

----------------------------------------------------------------------------
\* ecd.py: ECDParser

\* _build_account_refs: selecting the column COD_CTA_REF raises KeyError
\* when no I051 record put it into the frame
_build_account_refs(table) ==
    LET rec_i050 == Select(table, "I050")
        rec_i051 == Select(table, "I051")
        cols == {"COD_CTA", "NOME_CTA", "COD_CTA_REF"}
        left == [i \in 1..Len(rec_i050) |-> Project(rec_i050[i], {"id", "COD_CTA", "NOME_CTA"})]
        right == [columns |-> {"COD_CTA", "COD_CTA_REF"},
                  rows |-> [i \in 1..Len(rec_i051) |->
                               [COD_CTA |-> MapById(rec_i051[i].id_pai, rec_i050, "COD_CTA"),
                                COD_CTA_REF |-> rec_i051[i].COD_CTA_REF]]]
        merged == merge_left(left, right, "COD_CTA", "COD_CTA")
    IN IF rec_i050 = <<>> THEN Ok([columns |-> cols, rows |-> <<>>])
       ELSE IF rec_i051 = <<>> THEN Raise("KeyError")
       ELSE Ok([columns |-> cols,
                rows |-> drop_duplicates([i \in 1..Len(merged) |-> Project(merged[i], cols)],
                                         "COD_CTA")])

\* rec_i355 after the merge with account_refs
rec_i355_frame(table, account_refs) ==
    LET rec_i355 == Select(table, "I355")
    IN merge_left([i \in 1..Len(rec_i355) |->
                      Project(rec_i355[i], {"id", "id_pai", "COD_CTA", "VL_CTA"})],
                  account_refs, "COD_CTA", "COD_CTA")

_extract_i355(table, account_refs) ==
    LET rec_i355 == rec_i355_frame(table, account_refs)
    IN IF rec_i355 = <<>> THEN Ok(<<>>)
       ELSE iterrows(rec_i355, "I355", Ok(<<>>))

\* rec_i355 merged with the account references and looped over, or the
\* exception _build_account_refs raised
expenses_with(table, account_refs) ==
    IF account_refs.raised # "none" THEN account_refs
    ELSE _extract_i355(table, account_refs.value)

\* return SPEDData(...), or the exception one of the calls before it raised
sped_data_ecd(header, expenses) ==
    IF header.raised # "none" THEN header
    ELSE IF expenses.raised # "none" THEN expenses
    ELSE Ok(SPEDData("ecd", header.value, <<>>, <<>>, expenses.value))

_extract_data_ecd(table) ==
    sped_data_ecd(_extract_header(table, "ecd"),
                  expenses_with(table, _build_account_refs(table)))

\* self._extract_data(df), by parser class
_extract_data(fam, table) ==
    CASE fam = "contribuicoes" -> _extract_data_contribuicoes(table)
      [] fam = "fiscal" -> _extract_data_fiscal(table)
      [] fam = "ecd" -> _extract_data_ecd(table)

----------------------------------------------------------------------------
\* SPEDParser.parse

NoError == [kind |-> "none", cause |-> "none"]

\* Faulty variant: the emptiness test never true
IsEmptyNever(table) == FALSE

\* df.empty
IsEmpty(table) == table = <<>>

\* Faulty variant: the exception leaves parse as it was raised
ParseErrorRaw(exc) == [kind |-> exc, cause |-> exc]

\* Faulty variant: every exception taken for a decoding failure
ParseErrorAsEncoding(exc) == [kind |-> "SPEDEncodingError", cause |-> exc]

\* the except clauses of parse: the error kind that leaves parse for an
\* exception raised inside the try block
ParseError(exc) ==
    [kind |-> IF exc = "UnicodeDecodeError" THEN "SPEDEncodingError"
              ELSE IF exc \in {"SPEDParseError", "SPEDEncodingError", "SPEDEmptyFileError"}
                   THEN exc
                   ELSE "SPEDParseError",
     cause |-> exc]

Init ==
    /\ family \in Families
    /\ content \in Files(family)
    /\ df = <<>>
    /\ pc = "start"
    /\ result = {}
    /\ error = NoError
    /\ parts = <<>>
    /\ chunksize = CHUNK_SIZE

\* df = self._read_file(content)
ReadFile ==
    /\ pc = "start"
    /\ \E engine \in Engines : df' = _read_file(content, engine, end_marker(family))
    /\ pc' = "read"
    /\ UNCHANGED <<family, content, result, error, parts, chunksize>>

\* df = self._trim_at_end_marker(df)
TrimAtEndMarker ==
    /\ pc = "read"
    /\ df' = _trim_at_end_marker(df, end_marker(family))
    /\ pc' = "trimmed"
    /\ UNCHANGED <<family, content, result, error, parts, chunksize>>

\* df = self._assign_parent_ids(df)
AssignParentIds ==
    /\ pc = "trimmed"
    /\ df' = _assign_parent_ids(df, parent_codes(family))
    /\ pc' = "resolved"
    /\ UNCHANGED <<family, content, result, error, parts, chunksize>>

\* if df.empty: raise SPEDEmptyFileError(...)
RaiseEmptyFile ==
    /\ pc = "resolved"
    /\ IsEmpty(df)
    /\ error' = ParseError("SPEDEmptyFileError")
    /\ pc' = "failed"
    /\ UNCHANGED <<family, content, df, result, parts, chunksize>>

\* Faulty variant: the table is attached as soon as the call returns
ReturnsAttached(r) ==
    r.raised = "none" /\ result' = {set_raw_dataframe(r.value, df)}

\* Faulty variant: the container returned lacks its last sales item
ReturnsShort(r) ==
    /\ r.raised = "none"
    /\ result' = {[r.value EXCEPT !.sales_items =
                       SubSeq(@, 1, IF @ = <<>> THEN 0 ELSE Len(@) - 1)]}

\* the call returned: sped_data is bound to its value
Returns(r) == r.raised = "none" /\ result' = {r.value}

\* the call raised: except Exception as e: raise SPEDParseError(...) from e
Raises(r) == r.raised # "none" /\ error' = ParseError(r.raised)

\* sped_data = self._extract_data(df), returning
ExtractData ==
    /\ pc = "resolved"
    /\ ~IsEmpty(df)
    /\ Returns(_extract_data(family, df))
    /\ pc' = "extracted"
    /\ UNCHANGED <<family, content, df, error, parts, chunksize>>

\* sped_data = self._extract_data(df), raising
ExtractDataRaises ==
    /\ pc = "resolved"
    /\ ~IsEmpty(df)
    /\ Raises(_extract_data(family, df))
    /\ pc' = "failed"
    /\ UNCHANGED <<family, content, df, result, parts, chunksize>>

\* sped_data.set_raw_dataframe(df); return sped_data
SetRawDataframe ==
    /\ pc = "extracted"
    /\ result' = {set_raw_dataframe(d, df) : d \in result}
    /\ pc' = "done"
    /\ UNCHANGED <<family, content, df, error, parts, chunksize>>

Next ==
    \/ ReadFile
    \/ TrimAtEndMarker
    \/ AssignParentIds
    \/ RaiseEmptyFile
    \/ ExtractData
    \/ ExtractDataRaises
    \/ SetRawDataframe

Spec == Init /\ [][Next]_vars

----------------------------------------------------------------------------
\* SPEDParser.parse with _read_file in steps: the two engines, each of which
\* may raise, and the loop over the chunks of the fallback read

ReadInit ==
    /\ family \in Families
    /\ content \in ReadFiles(family)
    /\ df = <<>>
    /\ pc = "start"
    /\ result = {}
    /\ error = NoError
    /\ parts = <<>>
    /\ chunksize \in ChunkSizes

\* df = pd.read_csv(..., engine="c", on_bad_lines="skip"); return df
ReadCEngine ==
    /\ pc = "start"
    /\ df' = read_csv(content)
    /\ pc' = "read"
    /\ UNCHANGED <<family, content, result, error, parts, chunksize>>

\* except (pd.errors.ParserError, csv.Error): file_obj.seek(0);
\* reader = pd.read_csv(..., engine="python", chunksize=self.CHUNK_SIZE);
\* parts = []
CEngineRaises ==
    /\ pc = "start"
    /\ parts' = <<>>
    /\ pc' = "fallback"
    /\ UNCHANGED <<family, content, df, result, error, chunksize>>

\* the reader has a chunk after the Len(parts) it has yielded
HasChunk == Len(parts) * chunksize < Len(read_csv(content))

\* the chunk the reader yields next
NextOfReader == get_chunk(read_csv(content), Len(parts) + 1, chunksize)

\* the chunk holds a record of the end-marker type
HasMarker(chunk, marker) == \E i \in 1..Len(chunk) : mask_end(chunk, marker)[i]

\* for chunk in reader: a chunk without the end marker: parts.append(chunk)
NextChunk ==
    /\ pc = "fallback"
    /\ HasChunk
    /\ ~HasMarker(NextOfReader, end_marker(family))
    /\ parts' = Append(parts, NextOfReader)
    /\ UNCHANGED <<family, content, df, pc, result, error, chunksize>>

\* a chunk with the end marker: parts.append(chunk.iloc[: first_idx + 1]); break
ChunkWithMarker ==
    /\ pc = "fallback"
    /\ HasChunk
    /\ HasMarker(NextOfReader, end_marker(family))
    /\ parts' = Append(parts, part_of(NextOfReader, end_marker(family)))
    /\ pc' = "concat"
    /\ UNCHANGED <<family, content, df, result, error, chunksize>>

\* the reader has no chunk left: the loop ends
ReaderExhausted ==
    /\ pc = "fallback"
    /\ ~HasChunk
    /\ pc' = "concat"
    /\ UNCHANGED <<family, content, df, result, error, parts, chunksize>>

\* df = pd.concat(parts, ignore_index=True) if parts else
\* pd.DataFrame(columns=column_names); return df
Concat ==
    /\ pc = "concat"
    /\ df' = concat(flatten(parts))
    /\ pc' = "read"
    /\ UNCHANGED <<family, content, result, error, parts, chunksize>>

\* the Python engine raises, when the reader is made or asked for a chunk:
\* the exception leaves _read_file and reaches the except clauses of parse
FallbackRaises ==
    /\ pc = "fallback"
    /\ error' = ParseError("ParserError")
    /\ pc' = "failed"
    /\ UNCHANGED <<family, content, df, result, parts, chunksize>>

ReadNext ==
    \/ ReadCEngine
    \/ CEngineRaises
    \/ NextChunk
    \/ ChunkWithMarker
    \/ ReaderExhausted
    \/ Concat
    \/ FallbackRaises
    \/ TrimAtEndMarker
    \/ AssignParentIds
    \/ RaiseEmptyFile
    \/ ExtractData
    \/ ExtractDataRaises
    \/ SetRawDataframe

ReadSpec == ReadInit /\ [][ReadNext]_vars

----------------------------------------------------------------------------
\* Properties of parse.  The table df keeps its rows from "resolved" on.

Resolved == pc \in {"resolved", "extracted", "done", "failed"} /\ df # <<>>

Returned == pc \in {"extracted", "done"}

\* the positions of the rows of df that are of a parent type
ParentRows == {i \in 1..Len(df) : df[i].reg \in parent_codes(family)}

\* the position of the row the row at i is attached to by its parent id
ParentOf(i) == {p \in 1..Len(df) : df[p].id = df[i].id_pai}

\* the entities of a result and the row ids they were built from
Entities(d) == d.sales_items \o d.purchase_items \o d.expenses

Lines(items) == {items[n].line : n \in 1..Len(items)}

\* the row at i is a detail line of type `detail` attached to a `doc` record
\* of direction `oper`
Under(i, detail, doc, oper) ==
    /\ df[i].reg = detail
    /\ \E p \in ParentOf(i) : df[p].reg = doc /\ df[p].IND_OPER = oper

\* C1: after hierarchy resolution every parent-type record carries its own row
\* id as parent id, and every record from a parent-type record up to (not
\* including) the next parent-type record, or up to the end of the table for
\* the last one, carries the row id of that parent-type record, whatever its
\* own type is.
C1_ParentScopes ==
    Resolved =>
        /\ \A i \in ParentRows : df[i].id_pai = df[i].id
        /\ \A i \in ParentRows : \A j \in i..Len(df) :
              ((i + 1)..j) \cap ParentRows = {} => df[j].id_pai = df[i].id

\* two parent-type records, each followed by a record of a non-parent type
C1_Witness ==
    /\ pc = "resolved"
    /\ \E i \in ParentRows : \E k \in ParentRows :
          /\ i + 1 < k /\ k < Len(df)
          /\ (i + 1) \notin ParentRows /\ (k + 1) \notin ParentRows
          /\ df[i + 1].id_pai = df[i].id /\ df[k + 1].id_pai = df[k].id

\* C2: if the end-marker code occurs in the table, the trimmed table is the
\* prefix of the input up to and including the first occurrence (never longer
\* than the input, its last record the marker); otherwise the table is
\* unchanged; no error is raised either way.
C2_TrimAtFirstMarker ==
    pc = "trimmed" =>
        \E engine \in Engines :
        LET input == _read_file(content, engine, end_marker(family))
            Marks == {i \in 1..Len(input) : input[i].reg = end_marker(family)}
        IN /\ Marks # {} =>
                 \E k \in Marks :
                    /\ \A j \in Marks : k <= j
                    /\ df = SubSeq(input, 1, k)
                    /\ Len(df) <= Len(input)
                    /\ df[Len(df)].reg = end_marker(family)
           /\ Marks = {} => df = input
           /\ error = NoError

\* the marker occurs twice, with records after its first occurrence
C2_Witness ==
    /\ pc = "trimmed"
    /\ Len(df) + 1 < Len(content)
    /\ Cardinality({i \in 1..Len(content) : content[i].reg = end_marker(family)}) = 2
    /\ df[Len(df)].reg = end_marker(family)

\* C3: every item of sales_items is tagged "saida" and was built from a C170
\* (A170) line whose parent id is the row id of a C100 (A100) record with
\* direction "1"; in a sales parse no line under a record with direction "0"
\* is emitted; every item of purchase_items is tagged "entrada" and was built
\* from a C170 line under a C100 record with direction "0".
C3_DirectionFilter ==
    Returned =>
        \A d \in result :
           /\ \A n \in 1..Len(d.sales_items) :
                 /\ d.sales_items[n].operation = "saida"
                 /\ \E i \in 1..Len(df) :
                       /\ df[i].id = d.sales_items[n].line
                       /\ \/ Under(i, "C170", "C100", <<"1">>)
                          \/ Under(i, "A170", "A100", <<"1">>)
           /\ \A i \in 1..Len(df) :
                 (Under(i, "C170", "C100", <<"0">>) \/ Under(i, "A170", "A100", <<"0">>))
                    => df[i].id \notin Lines(d.sales_items)
           /\ \A n \in 1..Len(d.purchase_items) :
                 /\ d.purchase_items[n].operation = "entrada"
                 /\ \E i \in 1..Len(df) :
                       /\ df[i].id = d.purchase_items[n].line
                       /\ Under(i, "C170", "C100", <<"0">>)

\* a sales parse that emitted an item, of a table that also holds a document
\* record of direction "0"
C3_Witness ==
    /\ pc = "done"
    /\ family = "contribuicoes"
    /\ \E d \in result : d.sales_items # <<>>
    /\ \E p \in 1..Len(df) : df[p].reg = "C100" /\ df[p].IND_OPER = <<"0">>

\* the detail kinds a family extracts
Kinds(fam) ==
    CASE fam = "contribuicoes" -> {"C170_saida", "A170_saida"}
      [] fam = "fiscal" -> {"C170_entrada"}
      [] fam = "ecd" -> {"I355"}

\* the rows the loop of a detail kind iterates over: the detail lines that
\* passed the filter, joined with the lookup tables
Frame(kind) ==
    CASE kind = "C170_saida" -> c170_sales_frame(df, _build_product_lookup(df))
      [] kind = "A170_saida" -> a170_sales_frame(df, _build_product_lookup(df))
      [] kind = "C170_entrada" ->
            c170_purchases_frame(df, _build_product_lookup(df),
                                 _build_participant_lookup(df))
      [] kind = "I355" ->
            IF _build_account_refs(df).raised = "none"
            THEN rec_i355_frame(df, _build_account_refs(df).value)
            ELSE <<>>

\* the row at i is a detail line that passes the filter of its family
PassesFilter(i) ==
    CASE family = "contribuicoes" ->
            Under(i, "C170", "C100", <<"1">>) \/ Under(i, "A170", "A100", <<"1">>)
      [] family = "fiscal" -> Under(i, "C170", "C100", <<"0">>)
      [] family = "ecd" -> df[i].reg = "I355"

\* no record of type `code` carries the business code `value` in field `key`
NoEntry(code, key, value) ==
    \A j \in 1..Len(df) : df[j].reg = code => df[j][key] # value

\* C4: the joins with the lookup tables never drop a row: a detail line that
\* passes the filter and whose business code has no entry in a lookup table
\* (no 0200 for its item code, no 0150 for its participant code, no I050 for
\* its account code) is still emitted, with the enrichment fields of that
\* lookup absent.
C4_LeftJoinKeepsRow ==
    Returned =>
        \A d \in result : \A i \in 1..Len(df) :
           PassesFilter(i) =>
              /\ (family \in {"contribuicoes", "fiscal"}
                    /\ NoEntry("0200", "COD_ITEM", df[i].COD_ITEM))
                 => df[i].id \in Lines(Entities(d))
              /\ (family = "fiscal"
                    /\ \A p \in ParentOf(i) : NoEntry("0150", "COD_PART", df[p].COD_PART))
                 => \E n \in 1..Len(d.purchase_items) :
                       /\ d.purchase_items[n].line = df[i].id
                       /\ d.purchase_items[n].participant_uf = None
              /\ (family = "ecd" /\ NoEntry("I050", "COD_CTA", df[i].COD_CTA))
                 => \E n \in 1..Len(d.expenses) :
                       /\ d.expenses[n].line = df[i].id
                       /\ d.expenses[n].account_description = None
                       /\ d.expenses[n].reference_code = None

\* a row's conversion raising omits that row and no other: the emitted
\* entities are those of the rows of the loops whose conversion returns
RowsIsolated ==
    \A d \in result : \A kind \in Kinds(family) : \A n \in 1..Len(Frame(kind)) :
       (MakeEntity(kind, Frame(kind)[n]).raised = "none")
          <=> Frame(kind)[n].id \in Lines(Entities(d))

\* the lookup tables of the family are built without an exception
LookupsBuilt == family = "ecd" => _build_account_refs(df).raised = "none"

C6_MissingHeaderIsValidationError ==
    (Resolved /\ pc # "resolved" /\ Select(df, "0000") = <<>>) =>
        /\ pc = "failed"
        /\ result = {}
        /\ error.kind = "SPEDValidationError"

\* C7: a table that is empty after reading, trimming and hierarchy resolution
\* fails the parse with SPEDEmptyFileError: extraction is not run on it and no
\* result is returned.
C7_EmptyTableFails ==
    (df = <<>> /\ pc \in {"extracted", "done", "failed"}) =>
        /\ pc = "failed"
        /\ error.kind = "SPEDEmptyFileError"
        /\ result = {}

\* a parse of an empty file, ended
C7_Witness ==
    /\ content = <<>>
    /\ df = <<>>
    /\ pc = "failed"
    /\ error.kind = "SPEDEmptyFileError"

\* the error kinds parse lets out
FatalKinds == {"SPEDParseError", "SPEDEncodingError", "SPEDEmptyFileError"}

\* C8: a parse ends in one of two outcomes: it returns a result with a valid
\* Header and the table attached, or it raises one fatal error and returns
\* nothing; before that no error is out and no result has its table.  A
\* Header that cannot be built (no identification record, or a schema
\* violation) is fatal, whatever the detail lines are.
C8_OutcomeShape ==
    /\ pc = "done" =>
          /\ error = NoError
          /\ \E d \in result :
                /\ result = {d}
                /\ d._raw_df = {df}
                /\ d.file_type = family
                /\ d.header = _extract_header(df, family).value
                /\ MatchDigits(d.header.cnpj, CnpjLen)
                /\ MatchUpper(d.header.uf, UfLen)
    /\ pc = "failed" => result = {} /\ error.kind \in FatalKinds
    /\ pc \notin {"done", "failed"} =>
          /\ error = NoError
          /\ \A d \in result : d._raw_df = {}
    /\ (Resolved /\ pc # "resolved" /\ _extract_header(df, family).raised # "none")
          => pc = "failed" /\ result = {}

\* a failed parse of a table whose identification record violates the Header
\* schema and which holds a detail line that converts
C8_Witness ==
    /\ pc = "failed"
    /\ result = {}
    /\ _extract_header(df, family).raised = "ValidationError"
    /\ \E kind \in Kinds(family) : \E n \in 1..Len(Frame(kind)) :
          MakeEntity(kind, Frame(kind)[n]).raised = "none"

\* C9: a returned sales parse has no purchase items and a returned purchase
\* parse has no sales items.
C9_DirectionalExclusivity ==
    Returned =>
        \A d \in result :
           /\ family = "contribuicoes" => d.purchase_items = <<>>
           /\ family = "fiscal" => d.sales_items = <<>>

\* a returned sales parse that emitted an item
C9_Witness ==
    /\ pc = "done"
    /\ family = "contribuicoes"
    /\ \E d \in result : d.sales_items # <<>> /\ d.purchase_items = <<>>

\* out is src left-padded with zeros
IsZeroPadded(out, src) ==
    /\ IsStr(src)
    /\ Len(src) <= Len(out)
    /\ out = Zeros(Len(out) - Len(src)) \o src

\* the classification code of the first 0200 record of an item code
NcmOf(item) ==
    LET hits == {j \in 1..Len(df) : df[j].reg = "0200" /\ df[j].COD_ITEM = item}
    IN {df[j].COD_NCM : j \in {h \in hits : \A g \in hits : h <= g}}

\* C10: every emitted Item has an ncm of exactly 8 digits and a cfop of exactly
\* 4 digits; they are the source codes left-padded with zeros (the ncm of the
\* product record, the cfop of the C170 line); a line whose code is longer
\* than the width is not emitted.
C10_CodeWidths ==
    Returned =>
        \A d \in result :
           LET items == d.sales_items \o d.purchase_items
           IN /\ \A n \in 1..Len(items) :
                    /\ MatchDigits(items[n].ncm, NcmLen)
                    /\ MatchDigits(items[n].cfop, CfopLen)
                    /\ \A i \in 1..Len(df) :
                          df[i].id = items[n].line =>
                             /\ \A src \in NcmOf(df[i].COD_ITEM) :
                                   IsZeroPadded(items[n].ncm, src)
                             /\ df[i].reg = "C170" =>
                                   IsZeroPadded(items[n].cfop, df[i].CFOP)
              /\ \A i \in 1..Len(df) :
                    (df[i].reg = "C170" /\ IsStr(df[i].CFOP) /\ Len(df[i].CFOP) > CfopLen)
                       => df[i].id \notin Lines(items)

\* an item with padded codes, of a table that also holds a line that passes
\* the filter with a cfop of five digits
C10_Witness ==
    /\ pc = "done"
    /\ \E d \in result : \E n \in 1..Len(d.sales_items) :
          /\ d.sales_items[n].ncm = <<"0", "0", "0", "0", "1", "2", "3", "4">>
          /\ d.sales_items[n].cfop = <<"0", "9", "4", "9">>
    /\ \E i \in 1..Len(df) :
          /\ PassesFilter(i)
          /\ df[i].reg = "C170"
          /\ Len(df[i].CFOP) > CfopLen

\* the positions at which a raw text splits into the integer digits and the
\* fraction of an unsigned numeral whose separator, if any, is a comma or a point
NumeralSplits(raw) ==
    IF ~IsStr(raw) THEN {}
    ELSE {k \in 0..Len(raw) :
            LET int == SubSeq(raw, 1, k)
                rest == SubSeq(raw, k + 1, Len(raw))
            IN /\ IsDigits(int)
               /\ \/ rest = <<>> /\ int # <<>>
                  \/ /\ rest # <<>>
                     /\ rest[1] \in {",", "."}
                     /\ IsDigits(Tail(rest))
                     /\ int \o Tail(rest) # <<>>}

\* the exact decimal value of such a numeral
NumeralValue(raw) ==
    LET k == CHOOSE k \in NumeralSplits(raw) : TRUE
        int == SubSeq(raw, 1, k)
        frac == IF k = Len(raw) THEN <<>> ELSE SubSeq(raw, k + 2, Len(raw))
    IN DecimalOf(DigitsToInt(int \o frac), 0 - Len(frac))

\* a required amount: the exact value of a numeral, 0 for anything else
RequiredAmount(raw, v) ==
    IF NumeralSplits(raw) # {} THEN v = NumeralValue(raw) ELSE v = DecimalOf(0, 0)

\* an optional amount with every value that is no numeral read as absent
OptionalAmountOrAbsent(raw, v) ==
    IF NumeralSplits(raw) # {} THEN v = NumeralValue(raw) ELSE v = None

\* an optional amount with only the empty field read as absent
OptionalAmount(raw, v) ==
    IF raw = NaN THEN v = None ELSE RequiredAmount(raw, v)

\* the amounts of every emitted item, each related to the raw text of its line
\* by Req (required) or Opt (optional)
AmountsOfItems(Req(_, _), Opt(_, _)) ==
    \A d \in result : \A i \in 1..Len(df) :
       \A n \in 1..Len(d.sales_items \o d.purchase_items) :
          LET item == (d.sales_items \o d.purchase_items)[n]
          IN df[i].id = item.line =>
                /\ Req(df[i].VL_ITEM, item.total_value)
                /\ Opt(df[i].ALIQ_PIS, item.aliq_pis)
                /\ df[i].reg = "C170" => Opt(df[i].QTD, item.quantity)
                /\ df[i].VL_ITEM = <<"1", "2", "3", "4", ",", "5", "6">>
                      => item.total_value = DecimalOf(123456, 0 - 2)

\* C11 as first stated: a value with a comma fractional separator normalizes
\* to the exact decimal; empty, absent or unparseable text normalizes to 0 for
\* a required amount and to absent (None), never 0, for an optional one.
C11_OptionalUnparseableAbsent ==
    Returned => AmountsOfItems(RequiredAmount, OptionalAmountOrAbsent)

\* C11: a numeral with a comma (or a point) as its only separator normalizes
\* to the exact decimal; for a required amount every other value (empty,
\* absent, unparseable) normalizes to 0; for an optional amount an empty or
\* absent value normalizes to None, and unparseable text normalizes to 0.
C11_MonetaryNormalization ==
    Returned => AmountsOfItems(RequiredAmount, OptionalAmount)

\* an item of a line with comma decimals and an item of a line with
\* unparseable amounts
C11_Witness ==
    /\ pc = "done"
    /\ \E d \in result : \E m \in 1..Len(d.sales_items) : \E n \in 1..Len(d.sales_items) :
          /\ d.sales_items[m].total_value = DecimalOf(123456, 0 - 2)
          /\ d.sales_items[m].quantity = DecimalOf(25, 0 - 1)
          /\ \E i \in 1..Len(df) :
                df[i].id = d.sales_items[n].line /\ df[i].QTD = <<"x">>
          /\ d.sales_items[n].total_value = DecimalOf(0, 0)
          /\ d.sales_items[n].quantity = DecimalOf(0, 0)

\* the first identification record of the table
Row0000 == Select(df, "0000")[1]

\* the fields of the identification record other than its dates satisfy the
\* Header schema
HeaderFieldsValid ==
    /\ Select(df, "0000") # <<>>
    /\ IsStr(Row0000.CNPJ) /\ IsDigits(Row0000.CNPJ) /\ Len(Row0000.CNPJ) <= CnpjLen
    /\ IsStr(Row0000.NOME)
    /\ MatchUpper(Row0000.UF, UfLen)

\* the date a raw value stands for: the calendar date its first eight
\* characters name as DDMMYYYY, and 2024-01-01 for every other value
DateOfRaw(raw) ==
    IF IsStr(raw) /\ Len(raw) >= 8 /\ IsDigits(SubSeq(raw, 1, 8))
    THEN LET d == DigitsToInt(SubSeq(raw, 1, 2))
             m == DigitsToInt(SubSeq(raw, 3, 4))
             y == DigitsToInt(SubSeq(raw, 5, 8))
         IN IF y >= 1 /\ m \in 1..12 /\ d >= 1 /\ d <= DaysInMonth(m, y)
            THEN DateOf(y, m, d)
            ELSE DateOf(2024, 1, 1)
    ELSE DateOf(2024, 1, 1)

\* C12: an 8-character DDMMYYYY string resolves to that calendar date
\* ("05012024" -> 2024-01-05) and every unparseable, undersized, empty or
\* absent date value resolves to 2024-01-01 without raising: an identification
\* record whose other fields are valid yields a Header whatever its period
\* dates are, with each period date resolved in this way.
C12_DateParsing ==
    (Resolved /\ pc # "resolved" /\ HeaderFieldsValid /\ LookupsBuilt) =>
        /\ pc # "failed"
        /\ \A d \in result :
              /\ d.header.period_start = DateOfRaw(Row0000.DT_INI)
              /\ d.header.period_end = DateOfRaw(Row0000.DT_FIN)
              /\ Row0000.DT_INI = <<"0", "5", "0", "1", "2", "0", "2", "4">>
                    => d.header.period_start = DateOf(2024, 1, 5)
              /\ \A i \in 1..Len(df) :
                    \A n \in 1..Len(d.sales_items \o d.purchase_items) :
                       \A p \in ParentOf(i) :
                          LET item == (d.sales_items \o d.purchase_items)[n]
                          IN (df[i].id = item.line /\ IsStr(df[p].DT_DOC))
                                => item.document_date = DateOfRaw(df[p].DT_DOC)

\* C13: on every successful parse, of every file family, the taxpayer id of
\* the Header is exactly 14 digits; an id of fewer digits is the id of the
\* identification record left-padded with zeros ("123" -> "00000000000123").
C13_CnpjFourteenDigits ==
    Returned =>
       \A d \in result :
          LET cnpj == d.header.cnpj
              raw == Row0000.CNPJ
          IN /\ d.header.file_type = family
             /\ Len(cnpj) = 14
             /\ \A k \in 1..14 : cnpj[k] \in Digit
             /\ Len(raw) <= 14 /\ IsDigits(raw)
             /\ \A k \in 1..14 :
                   cnpj[k] = IF k <= 14 - Len(raw) THEN "0" ELSE raw[k - (14 - Len(raw))]
             /\ raw = <<"1", "2", "3">>
                   => cnpj = <<"0", "0", "0", "0", "0", "0", "0", "0", "0", "0", "0",
                               "1", "2", "3">>

\* a fiscal file with the id "123" parsed into a Header with the padded id
C13_Witness ==
    /\ pc = "done"
    /\ family = "fiscal"
    /\ Row0000.CNPJ = <<"1", "2", "3">>
    /\ \E d \in result :
          d.header.cnpj = <<"0", "0", "0", "0", "0", "0", "0", "0", "0", "0", "0",
                            "1", "2", "3">>

\* the record types asked for: those of the table and two that no file has
Codes == {df[i].reg : i \in 1..Len(df)} \cup {"M100", "E110"}

\* the positions of the records of type code
Matches(table, code) == {i \in 1..Len(table) : table[i].reg = code}

\* rows holds exactly the records of type code, in the order of the table,
\* each with every column of the record
InTableOrder(rows, table, code) ==
    /\ Len(rows) = Cardinality(Matches(table, code))
    /\ \A i \in Matches(table, code) :
          LET row == rows[Cardinality({j \in Matches(table, code) : j <= i})]
          IN /\ DOMAIN row = DOMAIN table[i] \ {"index"}
             /\ \A c \in DOMAIN row : row[c] = table[i][c]

\* C14: on a container with the record table attached, get_register(code)
\* returns exactly the records of the table whose type is code, in table
\* order, and an empty sequence when there is none, and raw_dataframe returns
\* the table; on a container with no table attached both raise (ValueError)
\* and return nothing.
C14_RegisterAccess ==
    \A d \in result :
       IF pc = "done"
       THEN /\ raw_dataframe(d) = Ok(df)
            /\ \A code \in Codes :
                  /\ get_register(d, code).raised = "none"
                  /\ InTableOrder(get_register(d, code).value, df, code)
                  /\ Matches(df, code) = {} => get_register(d, code).value = <<>>
       ELSE /\ d._raw_df = {}
            /\ raw_dataframe(d).raised = "ValueError"
            /\ \A code \in Codes : get_register(d, code).raised = "ValueError"

\* a parsed file with two detail lines of one type between other records:
\* get_register gives the two, in file order, and nothing for an absent type
C14_Witness ==
    /\ pc = "done"
    /\ \E d \in result : \E i, j \in 1..Len(df) :
          /\ i < j
          /\ df[i] # df[j]
          /\ Matches(df, "C170") = {i, j}
          /\ get_register(d, "C170").value[1].id = df[i].id
          /\ get_register(d, "C170").value[2].id = df[j].id
          /\ get_register(d, "M100").value = <<>>

\* a container that extraction returned and no table is attached to yet
C14_Unattached ==
    /\ pc = "extracted"
    /\ \E d \in result : get_register(d, "0000").raised = "ValueError"

\* a table is attached to the container
Attached == \E d \in result : d._raw_df # {}

\* the steps of a run, as far as the attached table goes
AttachStep ==
    /\ (~Attached /\ Attached') =>
          /\ pc = "extracted" /\ pc' = "done"
          /\ error = NoError /\ error' = NoError
          /\ result # {}
          /\ \A d \in result : result' = {[d EXCEPT !._raw_df = {df}]}
    /\ Attached => result' = result
    /\ pc' = "failed" => (result = {} /\ ~Attached')

\* C15: in every run of parse the table is attached only by the step that
\* follows a successful extraction, and is then the resolved table; a run
\* that returns has attached it (exactly once: it is never attached before,
\* and never replaced after); a run that fails, in the read, the emptiness
\* test or the extraction, never attaches.
C15_AttachOrdering ==
    /\ [](Attached <=> pc = "done")
    /\ [](pc = "failed" => result = {})
    /\ [][AttachStep]_vars

\* a run that has returned, with the resolved table attached to its container
C15_Witness ==
    /\ pc = "done"
    /\ Attached
    /\ \A d \in result : raw_dataframe(d).value = df

\* the records no parent-type record stands before or at
Unscoped == {j \in 1..Len(df) : (1..j) \cap ParentRows = {}}

\* the resolver's step: it ends in the resolved state with no error, keeps
\* the number and the fields of the records, and leaves an empty table as it is
ResolveStep ==
    pc = "trimmed" =>
       /\ pc' = "resolved" /\ error' = NoError
       /\ Len(df') = Len(df)
       /\ \A i \in 1..Len(df) : \A c \in DOMAIN df[i] : df'[i][c] = df[i][c]
       /\ df = <<>> => df' = <<>>

C16_NoParentAtAll ==
    /\ pc = "resolved" /\ Len(df) >= 2 /\ ParentRows = {}
    /\ \A j \in 1..Len(df) : df[j].id_pai = None

\* the empty table after the resolver's step
C16_EmptyTable == pc = "resolved" /\ df = <<>>

\* the records carry row ids
HasIds == \E i \in 1..Len(df) : "id" \in DOMAIN df[i]

C17_BatchedRead == pc = "read" /\ Len(df) < Len(content)

\* the detail-line record types a family's extractors loop over
DetailCodes(fam) ==
    CASE fam = "contribuicoes" -> {"C170", "A170"}
      [] fam = "fiscal" -> {"C170"}
      [] fam = "ecd" -> {"I355"}

\* the table has a valid identification record and no detail-line record
HeaderOnly ==
    /\ HeaderFieldsValid
    /\ IsStr(Row0000.DT_INI) /\ IsStr(Row0000.DT_FIN)
    /\ \A i \in 1..Len(df) : df[i].reg \notin DetailCodes(family)

\* C18: for every family, a table with a valid identification record and no
\* detail-line record (C170/A170 for sales, C170 for purchases, I355 for the
\* ledger) extracts successfully, with empty Items and Expenses, whatever
\* reference or header records (0200, 0150, C100, A100, I050, I051) it holds.
C18_NoDetailIsNoError ==
    (Resolved /\ pc # "resolved" /\ HeaderOnly) =>
        /\ pc # "failed"
        /\ \A d \in result :
              d.sales_items = <<>> /\ d.purchase_items = <<>> /\ d.expenses = <<>>

\* the two-letter state code of the first two digits of a municipality
\* code, as a set: empty when the code is empty or its digits are unmapped
StateOf(cod_mun) ==
    {<<e[3], e[4]>> : e \in {e \in IBGE_UF_CODES :
                                 IsStr(cod_mun) /\ Len(cod_mun) >= 2
                                 /\ e[1] = cod_mun[1] /\ e[2] = cod_mun[2]}}

\* the first 0150 record of the participant of the document of line i
ParticipantOf(i) ==
    {j \in 1..Len(df) :
        /\ df[j].reg = "0150"
        /\ \E p \in ParentOf(i) : df[j].COD_PART = df[p].COD_PART
        /\ \A k \in 1..(j - 1) : df[k].reg = "0150" => df[k].COD_PART # df[j].COD_PART}

\* the state code the item of line i is to carry: that of its participant's
\* municipality, absent without a participant entry or a mapped code
ExpectedUf(i) ==
    LET states == UNION {StateOf(df[j].COD_MUN) : j \in ParticipantOf(i)}
    IN IF states = {} THEN None ELSE CHOOSE uf \in states : TRUE

\* the product of line i has an entry in the product table
ProductKnown(i) == ~NoEntry("0200", "COD_ITEM", df[i].COD_ITEM)

\* C19: every purchase line that passes the direction filter (its product
\* known) is emitted, with participant_uf the state code mapped from the
\* first two digits of its participant's municipality code, and absent
\* when there is no participant entry, no municipality code or no mapping
\* of the code; every emitted participant_uf is two uppercase letters.
C19_ParticipantUf ==
    (Returned /\ family = "fiscal") =>
       \A d \in result :
          /\ \A i \in 1..Len(df) :
                (PassesFilter(i) /\ ProductKnown(i)) =>
                   \E n \in 1..Len(d.purchase_items) :
                      /\ d.purchase_items[n].line = df[i].id
                      /\ d.purchase_items[n].participant_uf = ExpectedUf(i)
          /\ \A n \in 1..Len(d.purchase_items) :
                LET uf == d.purchase_items[n].participant_uf
                IN uf # None => (Len(uf) = 2 /\ uf[1] \in Upper /\ uf[2] \in Upper)

\* the typed entities of a container
Typed(d) ==
    <<d.file_type, d.header, d.sales_items, d.purchase_items, d.expenses>>

DetailOf(kind) == IF kind = "A170_saida" THEN "A170" ELSE "C170"

DocOf(kind) == IF kind = "A170_saida" THEN "A100" ELSE "C100"

\* the nearest parent-type record at or before the record at i
Nearest(i) == {p \in ParentRows : p <= i /\ ((p + 1)..i) \cap ParentRows = {}}

\* the record at i is a detail line of a kind whose nearest parent-type record
\* is not a document of that kind, or that has no parent-type record before it
OutOfScope(i, kind) ==
    /\ df[i].reg = DetailOf(kind)
    /\ \A p \in Nearest(i) : df[p].reg # DocOf(kind)

\* C21: in the sales and the purchase family, every row the loop of a detail
\* kind iterates over, and every emitted item, is a C170 (A170) line whose
\* parent id is the row id of a C100 (A100) record; a detail line whose nearest
\* preceding parent-type record is of another type, or that precedes every
\* parent-type record, is neither looped over nor emitted.
C21_OwnParentScope ==
    (Resolved /\ family \in {"contribuicoes", "fiscal"}) =>
        \A kind \in Kinds(family) :
           /\ \A n \in 1..Len(Frame(kind)) : \E i \in 1..Len(df) :
                 /\ df[i].id = Frame(kind)[n].id
                 /\ df[i].reg = DetailOf(kind)
                 /\ \E p \in ParentOf(i) : df[p].reg = DocOf(kind) /\ p \in Nearest(i)
           /\ \A d \in result : \A n \in 1..Len(Entities(d)) : \E i \in 1..Len(df) :
                 /\ df[i].id = Entities(d)[n].line
                 /\ df[i].reg \in {DetailOf(k) : k \in Kinds(family)}
                 /\ \E p \in ParentOf(i) :
                       df[p].reg = (IF df[i].reg = "A170" THEN "A100" ELSE "C100")
           /\ \A i \in 1..Len(df) :
                 OutOfScope(i, kind) =>
                    /\ \A n \in 1..Len(Frame(kind)) : Frame(kind)[n].id # df[i].id
                    /\ \A d \in result : df[i].id \notin Lines(Entities(d))

\* a returned sales parse of a table with a C100 of direction "1", then a
\* record of another parent type, then a C170 line that would convert: the
\* line is not emitted
C21_Witness ==
    /\ pc = "done"
    /\ family = "contribuicoes"
    /\ \E i \in 1..Len(df) : \E p \in Nearest(i) : \E c \in 1..(p - 1) :
          /\ df[c].reg = "C100" /\ df[c].IND_OPER = <<"1">>
          /\ df[p].reg = "C190"
          /\ OutOfScope(i, "C170_saida")
          /\ ~NoEntry("0200", "COD_ITEM", df[i].COD_ITEM)
          /\ Len(df[i].CFOP) <= CfopLen
    /\ \A d \in result : d.sales_items = <<>>

\* a purchase table with a C170 line under a record of another parent type
C21_WitnessPurchase ==
    /\ pc = "done"
    /\ family = "fiscal"
    /\ \E i \in 1..Len(df) : \E p \in Nearest(i) : \E c \in 1..(p - 1) :
          /\ df[c].reg = "C100" /\ df[c].IND_OPER = <<"0">>
          /\ df[p].reg = "C500"
          /\ OutOfScope(i, "C170_entrada")

\* a table whose first record is a detail line, before every parent-type record
C21_WitnessNoParent ==
    /\ Resolved
    /\ df[1].reg \in {"C170", "A170"}
    /\ Nearest(1) = {}

\* the rows the reader yields, in file order, and the rows appended so far
Yielded == read_csv(content)

Gathered == flatten(parts)

\* the k-th batch of the reader: the next chunksize rows, fewer at the end
Batch(k) ==
    LET from == (k - 1) * chunksize
        n == IF Len(Yielded) - from < chunksize THEN Len(Yielded) - from ELSE chunksize
    IN [i \in 1..n |-> Yielded[from + i]]

\* the positions of the end-marker records of a sequence of rows
Markers(rows) == {i \in 1..Len(rows) : rows[i].reg = end_marker(family)}

\* a step that appends: it appends the batch after those appended before,
\* whole and with the loop going on when it holds no end marker, cut after
\* its first end marker and with the loop left when it holds one
AppendStep ==
    parts' # parts =>
       /\ pc = "fallback"
       /\ Len(parts') = Len(parts) + 1
       /\ SubSeq(parts', 1, Len(parts)) = parts
       /\ Batch(Len(parts')) # <<>>
       /\ IF Markers(Batch(Len(parts'))) = {}
          THEN parts'[Len(parts')] = Batch(Len(parts')) /\ pc' = "fallback"
          ELSE /\ pc' # "fallback"
               /\ \E m \in Markers(Batch(Len(parts'))) :
                     /\ \A j \in Markers(Batch(Len(parts'))) : m <= j
                     /\ parts'[Len(parts')] = SubSeq(Batch(Len(parts')), 1, m)

\* C22: the fallback read appends the batches in order, one whole batch a
\* step; the step that meets a batch with an end-marker record appends that
\* batch's rows up to and including its first marker and leaves the loop,
\* after which nothing is appended; the rows appended are at every moment a
\* prefix of the file's rows with no record after the first end marker.
C22_BatchesInOrder ==
    /\ [][AppendStep]_vars
    /\ [][pc # "fallback" => parts' = parts]_vars
    /\ [](pc = "fallback" =>
            /\ Markers(Gathered) = {}
            /\ Len(Gathered) = (IF Len(parts) * chunksize < Len(Yielded)
                                THEN Len(parts) * chunksize ELSE Len(Yielded)))
    /\ [](/\ Len(Gathered) <= Len(Yielded)
          /\ Gathered = SubSeq(Yielded, 1, Len(Gathered))
          /\ \A i \in 1..(Len(Gathered) - 1) : Gathered[i].reg # end_marker(family))

\* the loop left at the second batch, which was cut after its end marker,
\* with a record behind the marker
C22_Witness ==
    /\ pc = "concat"
    /\ Len(parts) = 2
    /\ Gathered[Len(Gathered)].reg = end_marker(family)
    /\ Len(parts[2]) < Len(Batch(2))
    /\ Len(Gathered) < Len(Yielded)

\* the loop left with a batch that was never asked for
C22_BatchNotRequested ==
    /\ pc = "read"
    /\ parts # <<>>
    /\ Len(parts) * chunksize < Len(Yielded)
    /\ Len(df) = Len(Gathered)

\* the table _read_file returned came from the fallback read
FromFallback == parts # <<>> \/ Yielded = <<>>

\* C23: for every file and every batch size, the table the fallback loop
\* accumulates equals _trim_at_end_marker applied to all the rows of the
\* file; the trimming step that follows changes nothing, and trimming a
\* trimmed table changes nothing.
C23_FallbackAgreesWithTrimmer ==
    /\ [](pc = "concat" =>
            concat(Gathered) = _trim_at_end_marker(Yielded, end_marker(family)))
    /\ []((pc = "read" /\ FromFallback) =>
            /\ df = _trim_at_end_marker(Yielded, end_marker(family))
            /\ _trim_at_end_marker(df, end_marker(family)) = df)
    /\ [][(pc = "read" /\ FromFallback) => df' = df]_vars
    /\ [](pc = "trimmed" => _trim_at_end_marker(df, end_marker(family)) = df)
    /\ [](pc = "start" =>
            \A size \in ChunkSizes :
               concat(read_chunks(Yielded, 1, end_marker(family), size))
                  = _trim_at_end_marker(Yielded, end_marker(family)))

\* a table the fallback read returned, cut at an end marker found in a batch
\* of more than one row, shorter than the file
C23_Witness ==
    /\ pc = "read"
    /\ parts # <<>>
    /\ chunksize > 1
    /\ Len(df) < Len(Yielded)
    /\ Len(df) > 1
    /\ df = _trim_at_end_marker(Yielded, end_marker(family))

\* the same table after the trimming step
C23_TrimmedAgain ==
    /\ pc = "trimmed"
    /\ parts # <<>>
    /\ Len(df) < Len(Yielded)
    /\ df[Len(df)].reg = end_marker(family)

\* C24: a decoding failure (UnicodeDecodeError) leaves parse as
\* SPEDEncodingError, and nothing else does; the C engine raising is no
\* error: the read goes on with the fallback, which can end in a returned
\* result; the fallback raising leaves parse as SPEDParseError, with no result.
C24_TokenizerFailures ==
    /\ [](ParseError("UnicodeDecodeError").kind = "SPEDEncodingError")
    /\ [](error.kind = "SPEDEncodingError" => error.cause = "UnicodeDecodeError")
    /\ [][(pc = "start" /\ pc' # "read") =>
             (pc' = "fallback" /\ error' = NoError /\ result' = {} /\ df' = df)]_vars
    /\ [](pc \in {"fallback", "concat"} => error = NoError /\ result = {})
    /\ []((pc = "read" /\ FromFallback) =>
             (error = NoError /\ df = concat(Gathered)))
    /\ [][(pc = "fallback" /\ pc' \notin {"fallback", "concat"}) =>
             /\ pc' = "failed"
             /\ error'.kind = "SPEDParseError"
             /\ error'.cause = "ParserError"
             /\ result' = {}]_vars
    /\ [](error.cause = "ParserError" => (pc = "failed" /\ result = {} /\ df = <<>>))

\* a parse that returned a result after the C engine raised and the fallback
\* read the file
C24_Witness ==
    /\ pc = "done"
    /\ parts # <<>>
    /\ error = NoError
    /\ \E d \in result :
          /\ Len(raw_dataframe(d).value) = Len(Gathered)
          /\ \A i \in 1..Len(Gathered) : raw_dataframe(d).value[i].reg = Gathered[i].reg

\* a parse that failed because the fallback raised after it had read a chunk
C24_FallbackFailed ==
    /\ pc = "failed"
    /\ parts # <<>>
    /\ error = [kind |-> "SPEDParseError", cause |-> "ParserError"]
    /\ result = {}

\* C25: an error is out exactly when parse has failed, and it is then one of
\* SPEDParseError, SPEDEncodingError and SPEDEmptyFileError, with no result;
\* an exception of one of the three kinds leaves parse as it is, and every
\* other exception, raised by the read or by the extraction, leaves it as
\* SPEDParseError: so a table without identification record (ValueError)
\* and an identification record that violates the Header schema
\* (ValidationError).
C25_ClosedErrorKinds ==
    /\ pc = "failed" <=> error # NoError
    /\ pc = "failed" =>
          /\ error.kind \in FatalKinds
          /\ result = {}
          /\ error.cause \in FatalKinds => error.kind = error.cause
          /\ error.cause \notin FatalKinds => error.kind = "SPEDParseError"
          /\ (df # <<>> /\ Select(df, "0000") = <<>>) =>
                error = [kind |-> "SPEDParseError", cause |-> "ValueError"]
          /\ (/\ Select(df, "0000") # <<>>
              /\ IsStr(Row0000.DT_INI) /\ IsStr(Row0000.DT_FIN)
              /\ ~MatchUpper(Row0000.UF, UfLen)) =>
                error = [kind |-> "SPEDParseError", cause |-> "ValidationError"]
          /\ (df = <<>> /\ parts = <<>> /\ pc = "failed" /\ error.cause # "ParserError") =>
                error = [kind |-> "SPEDEmptyFileError", cause |-> "SPEDEmptyFileError"]

\* a parse failed by an identification record that violates the Header schema
C25_Witness ==
    /\ pc = "failed"
    /\ Select(df, "0000") # <<>>
    /\ error = [kind |-> "SPEDParseError", cause |-> "ValidationError"]

\* a parse failed by the emptiness test: the error leaves parse as raised
C25_EmptyFilePropagates ==
    /\ pc = "failed"
    /\ df = <<>>
    /\ error = [kind |-> "SPEDEmptyFileError", cause |-> "SPEDEmptyFileError"]

\* a parse failed by a table without identification record
C25_MissingIdentification ==
    /\ pc = "failed"
    /\ df # <<>>
    /\ Select(df, "0000") = <<>>
    /\ error.kind = "SPEDParseError"

\* the causes of the failed parses that are no error kind of the package
C25_OtherCauses ==
    /\ pc = "failed"
    /\ error.cause \in {"TypeError", "KeyError", "ParserError"}

\* the rows of a lookup table have pairwise different keys
OneRowPerKey(rows, key) ==
    \A a, b \in 1..Len(rows) : rows[a][key] = rows[b][key] => a = b

\* the first record of type code whose field key has the value v
FirstWith(code, key, v) ==
    {j \in 1..Len(df) :
        /\ df[j].reg = code /\ df[j][key] = v
        /\ \A k \in 1..(j - 1) : ~(df[k].reg = code /\ df[k][key] = v)}

\* the first I051 record under an I050 record of account v
FirstRefOf(v) ==
    {j \in 1..Len(df) :
        /\ df[j].reg = "I051"
        /\ \E p \in ParentOf(j) : df[p].reg = "I050" /\ df[p].COD_CTA = v
        /\ \A k \in 1..(j - 1) :
              ~(df[k].reg = "I051"
                /\ \E p \in ParentOf(k) : df[p].reg = "I050" /\ df[p].COD_CTA = v)}

\* the lookup has one row for each key value of the records of type code
\* and none besides
CoversKeys(rows, code, key) ==
    /\ \A j \in 1..Len(df) :
          df[j].reg = code => \E a \in 1..Len(rows) : rows[a][key] = df[j][key]
    /\ \A a \in 1..Len(rows) : FirstWith(code, key, rows[a][key]) # {}

\* the row ids of a frame are pairwise different
NoRowTwice(rows) == \A a, b \in 1..Len(rows) : rows[a].id = rows[b].id => a = b

\* C26: the product lookup, the participant lookup and the account
\* reference lookup hold one row per key value, with the fields of the first
\* record of that key in file order; the frames the loops iterate over hold no
\* detail line twice, and no detail line yields two entities.
C26_OneRowPerKey ==
    Resolved =>
       /\ family \in {"contribuicoes", "fiscal"} =>
             LET products == _build_product_lookup(df).rows
             IN /\ OneRowPerKey(products, "COD_ITEM")
                /\ CoversKeys(products, "0200", "COD_ITEM")
                /\ \A a \in 1..Len(products) :
                      \A j \in FirstWith("0200", "COD_ITEM", products[a].COD_ITEM) :
                         /\ products[a].DESCR_ITEM = df[j].DESCR_ITEM
                         /\ products[a].COD_NCM = df[j].COD_NCM
       /\ family = "fiscal" =>
             LET participants == _build_participant_lookup(df).rows
             IN /\ OneRowPerKey(participants, "COD_PART")
                /\ CoversKeys(participants, "0150", "COD_PART")
                /\ \A a \in 1..Len(participants) :
                      \A j \in FirstWith("0150", "COD_PART", participants[a].COD_PART) :
                         /\ participants[a].NOME = df[j].NOME
                         /\ participants[a].UF \in StateOf(df[j].COD_MUN) \cup {NaN}
                         /\ participants[a].UF = NaN <=> StateOf(df[j].COD_MUN) = {}
       /\ (family = "ecd" /\ _build_account_refs(df).raised = "none") =>
             LET account_refs == _build_account_refs(df).value.rows
             IN /\ OneRowPerKey(account_refs, "COD_CTA")
                /\ CoversKeys(account_refs, "I050", "COD_CTA")
                /\ \A a \in 1..Len(account_refs) :
                      /\ \A j \in FirstWith("I050", "COD_CTA", account_refs[a].COD_CTA) :
                            account_refs[a].NOME_CTA = df[j].NOME_CTA
                      /\ \A j \in FirstRefOf(account_refs[a].COD_CTA) :
                            account_refs[a].COD_CTA_REF = df[j].COD_CTA_REF
                      /\ FirstRefOf(account_refs[a].COD_CTA) = {} =>
                            account_refs[a].COD_CTA_REF = NaN
       /\ \A kind \in Kinds(family) : NoRowTwice(Frame(kind))
       /\ \A d \in result :
             \A m, n \in 1..Len(Entities(d)) :
                Entities(d)[m].line = Entities(d)[n].line => m = n

\* a returned sales parse of a table with two 0200 records of one product:
\* the one item of the line carries the code of the first
C26_Witness ==
    /\ pc = "done"
    /\ family = "contribuicoes"
    /\ Cardinality({j \in 1..Len(df) : df[j].reg = "0200" /\ df[j].COD_ITEM = <<"A">>}) = 2
    /\ Len(_build_product_lookup(df).rows) = 1
    /\ \E d \in result :
          /\ Len(d.sales_items) = 1
          /\ d.sales_items[1].ncm = <<"0", "0", "0", "0", "1", "2", "3", "4">>

\* a purchase table with two 0150 records of one participant, and an item
\* with the state of the first
C26_WitnessParticipant ==
    /\ pc = "done"
    /\ family = "fiscal"
    /\ Cardinality({j \in 1..Len(df) : df[j].reg = "0150" /\ df[j].COD_PART = <<"P", "1">>}) = 2
    /\ \E d \in result : \E n \in 1..Len(d.purchase_items) :
          d.purchase_items[n].participant_uf = <<"S", "P">>

\* a ledger table with two I050 records of one account and two I051 records
\* under the second: one row, with the name of the first I050 and the
\* reference of the first I051
C26_WitnessAccount ==
    /\ pc = "done"
    /\ family = "ecd"
    /\ Cardinality({j \in 1..Len(df) : df[j].reg = "I050"}) >= 2
    /\ Cardinality({j \in 1..Len(df) : df[j].reg = "I051"}) >= 2
    /\ _build_account_refs(df).value.rows =
          <<[COD_CTA |-> <<"X">>, NOME_CTA |-> <<"n">>, COD_CTA_REF |-> <<"R">>]>>

\* the ledger table has a valid identification record, chart-of-accounts
\* records and no reference-mapping record
AccountsWithoutRefs ==
    /\ family = "ecd"
    /\ HeaderFieldsValid
    /\ IsStr(Row0000.DT_INI) /\ IsStr(Row0000.DT_FIN)
    /\ \E i \in 1..Len(df) : df[i].reg = "I050"
    /\ \A i \in 1..Len(df) : df[i].reg # "I051"

\* C27: for a ledger table with I050 records and no I051 record,
\* _build_account_refs returns one row per distinct account code with the
\* reference code absent, the extraction succeeds, and every expense of an
\* I355 record is emitted with reference_code absent.
C27_AccountsWithoutRefs ==
    (Resolved /\ pc # "resolved" /\ AccountsWithoutRefs) =>
        /\ _build_account_refs(df).raised = "none"
        /\ LET account_refs == _build_account_refs(df).value.rows
           IN /\ OneRowPerKey(account_refs, "COD_CTA")
              /\ CoversKeys(account_refs, "I050", "COD_CTA")
              /\ \A a \in 1..Len(account_refs) : account_refs[a].COD_CTA_REF = NaN
        /\ pc # "failed"
        /\ \A d \in result :
              \A n \in 1..Len(d.expenses) : d.expenses[n].reference_code = None

\* C28: the table a returned result exposes is the table of the parse, read,
\* trimmed at the end marker and resolved, and the one the entities were
\* extracted from: raw_dataframe and get_register show no record after the
\* first end marker, get_register of the end-marker code returns at most one
\* record, and every entity was built from a detail line of that table.
C28_ExposedTable ==
    pc = "done" =>
        \A d \in result :
           /\ raw_dataframe(d).raised = "none"
           /\ raw_dataframe(d).value = df
           /\ \E engine \in Engines :
                 df = _assign_parent_ids(
                          _trim_at_end_marker(
                              _read_file(content, engine, end_marker(family)),
                              end_marker(family)),
                          parent_codes(family))
           /\ d = set_raw_dataframe(_extract_data(family, df).value, df)
           /\ \A i \in 1..(Len(df) - 1) : df[i].reg # end_marker(family)
           /\ Len(get_register(d, end_marker(family)).value) <= 1
           /\ \A i \in 1..Len(df) :
                 \E r \in 1..Len(get_register(d, df[i].reg).value) :
                    get_register(d, df[i].reg).value[r].id = df[i].id
           /\ \A n \in 1..Len(Entities(d)) :
                 \E i \in 1..Len(df) :
                    /\ df[i].id = Entities(d)[n].line
                    /\ df[i].reg \in DetailCodes(family)

\* a returned parse of a file with a detail line before the end marker and
\* one after it: one entity, one end-marker record, and a table that ends at
\* the marker
C28_Witness ==
    /\ pc = "done"
    /\ \E k \in 1..Len(content) :
          /\ content[k].reg = end_marker(family)
          /\ \E j \in 1..(k - 1) : content[j].reg \in DetailCodes(family)
          /\ \E j \in (k + 1)..Len(content) : content[j].reg \in DetailCodes(family)
          /\ Len(df) = k
    /\ \E d \in result :
          /\ Len(Entities(d)) = 1
          /\ Len(get_register(d, end_marker(family)).value) = 1

\* a returned parse of a file with two end markers
C28_WitnessTwoMarkers ==
    /\ pc = "done"
    /\ Cardinality({i \in 1..Len(content) : content[i].reg = end_marker(family)}) = 2
    /\ \E d \in result : Len(get_register(d, end_marker(family)).value) = 1

\* the n-th position of the set S of line positions
Nth(S, n) == CHOOSE i \in S : Cardinality({j \in S : j < i}) = n - 1

\* the records of the table are, in order, those of the first lines of S
FromLines(S) ==
    /\ Len(df) <= Cardinality(S)
    /\ \A n \in 1..Len(df) : df[n] = Row(content[Nth(S, n)], n - 1)

\* the lines of the file with at most as many tokens as columns
NotOverlong == {i \in 1..Len(content) : content[i].tokens # "more"}

C29_WitnessOverlongMarker ==
    /\ pc = "read"
    /\ parts # <<>>
    /\ \E j \in 1..Len(content) :
          /\ content[j].tokens = "more" /\ content[j].reg = end_marker(family)
          /\ \A i \in 1..Len(content) : i # j => content[i].reg # end_marker(family)
          /\ j < Len(content)
          /\ Len(df) = Len(content) - 1

\* the position in the table of the detail line an entity was built from
PosOf(entity) == CHOOSE i \in 1..Len(df) : df[i].id = entity.line

\* the entities of a list follow the order of their lines in the table
InFileOrder(items) ==
    \A m, n \in 1..Len(items) : m < n => PosOf(items[m]) < PosOf(items[n])

\* C30: sales_items lists the items of the C170 lines, in the order of the
\* lines in the file, and after them the items of the A170 lines, in the
\* order of the lines in the file; purchase_items and expenses follow the
\* order of their lines; a row left out after its failure leaves the others
\* in this order.
C30_EntityOrder ==
    Returned =>
        \A d \in result :
           /\ \A m, n \in 1..Len(d.sales_items) :
                 m < n =>
                    LET a == PosOf(d.sales_items[m])
                        b == PosOf(d.sales_items[n])
                    IN IF df[a].reg = df[b].reg THEN a < b
                       ELSE df[a].reg = "C170" /\ df[b].reg = "A170"
           /\ InFileOrder(d.purchase_items)
           /\ InFileOrder(d.expenses)

\* a returned sales parse of a file with an A170 line before two C170 lines,
\* the first of which failed: the item of the second C170 line comes first,
\* the item of the A170 line after it
C30_Witness ==
    /\ pc = "done"
    /\ family = "contribuicoes"
    /\ \E d \in result :
          /\ Len(d.sales_items) = 2
          /\ df[PosOf(d.sales_items[1])].reg = "C170"
          /\ df[PosOf(d.sales_items[2])].reg = "A170"
          /\ PosOf(d.sales_items[2]) < PosOf(d.sales_items[1])
          /\ \E m \in 1..Len(Frame("C170_saida")) :
                /\ MakeEntity("C170_saida", Frame("C170_saida")[m]).raised # "none"
                /\ \E i \in 1..Len(df) :
                      /\ df[i].id = Frame("C170_saida")[m].id
                      /\ i < PosOf(d.sales_items[1])
                      /\ PosOf(d.sales_items[2]) < i

\* a returned purchase parse with two items, in the order of their lines
C30_WitnessPurchases ==
    /\ pc = "done"
    /\ \E d \in result :
          /\ Len(d.purchase_items) = 2
          /\ PosOf(d.purchase_items[1]) < PosOf(d.purchase_items[2])

\* a returned ledger parse with two expenses, in the order of their lines
C30_WitnessExpenses ==
    /\ pc = "done"
    /\ \E d \in result :
          /\ Len(d.expenses) = 2
          /\ PosOf(d.expenses[1]) < PosOf(d.expenses[2])

====
